---------------------------- MODULE Spec2Model ----------------------------
(***************************************************************************)
(* A model of the trace bookkeeping of recovery-bench:                     *)
(*   - the unsolved-task filter   (get_unsolved_tasks),                     *)
(*   - the trace directory indexer and the trace collector                  *)
(*     (find_task_info, collect_traces),                                    *)
(*   - the hash reorganizer       (reorganize_directories and its reverse), *)
(*   - the replay reconstructor   (ReplayAgent.perform_task),               *)
(*   - the pipeline driver        (generate_traces.main).                   *)
(* The file system is the only state.  Each component has a specification  *)
(* of its own (SpecFilter, SpecCollect, SpecReorg, SpecReplay,             *)
(* SpecPipeline) over the variables it                                     *)
(* uses; the variables of the other components stay at their idle values.   *)
(***************************************************************************)
EXTENDS Integers, Sequences, FiniteSets, TLC

VARIABLES
    logs_dir,       \* filter, indexer: the logs root, as os.listdir yields it
    threshold,      \* filter: min_episodes_desired / max_episodes_desired
    f_pc,           \* filter, indexer: "start", then which function ran
    f_ret,          \* filter, indexer: the outcome of the call
    fs,             \* collector: the trace directories on disk
    src,            \* collector: the trace directories on disk when the call began
    output_dir,     \* collector: the output root
    min_episodes,   \* collector: the minimum episode count
    c_pc,           \* collector: "idle" | "scan" | "select" | "copy" | "done" | "raised"
    all_task_info,  \* collector: task id -> versions, in insertion order
    selected_tasks, \* collector: task id -> best version, in insertion order
    c_i,            \* collector: the copy loop's position in selected_tasks
    copied,         \* collector: the copytree calls that completed
    base,           \* reorganizer: the entries under the base path
    task_folder,    \* reorganizer: directory name -> instruction of its task.yaml
    r_orig,         \* reorganizer: the entries under the base path at the start
    r_calls,        \* reorganizer: the transforms that have run, in order
    r_moves,        \* reorganizer: the shutil.move calls of the last transform
    r_prev,         \* reorganizer: the entries under the base path before the last transform
    r_instruction,  \* replay lookup: the instruction the trajectory folder was looked up for
    r_found,        \* replay lookup: what _find_trajectory_folder returned
    p_traj,         \* replay: "nofolder" | "nologs" | "logs" (the trajectory folder found)
    p_items,        \* replay: the entries of the agent-logs directory
    p_debug,        \* replay: debug.json of the last episode directory
    p_logging,      \* replay: logging_dir is given
    p_logged,       \* replay: the names of the entries of logging_dir
    p_pc,           \* replay: "idle" | "start" | "replay" | "loop" | "returned" | "raised"
    p_exc,          \* replay: the exception perform_task raised
    p_read,         \* replay: what _read_trajectories returned
    p_i,            \* replay: position of _replay_tasks in the command batches
    p_sent,         \* replay: the batches _replay_tasks sent to the session, and whether each raised
    p_episodes,     \* replay: the episode numbers the resumed agent loop has run
    p_result,       \* replay: `result` of _replay_tasks, the terminal output last captured
    p_prompt,       \* replay: the terminal output in the resumed loop's initial prompt
    args,               \* driver: revision, --run-initial, --max-iterations
    runs,               \* driver: run directory -> what the runner left under runs/
    d_pc,               \* driver: the stage main runs next, or how it ended
    d_exc,              \* driver: the exception that ended main
    iteration,          \* driver: the loop variable of main
    all_trace_dirs,     \* driver: the run directories kept for collection
    current_traces_dir, \* driver: the run directory the next round reads
    replay_traces_dir,  \* driver: what run_replay_agent_for_unsolved returned
    unsolved_task_ids,  \* driver: what the round's filter returned
    d_log               \* driver: the stages main has run, in order

filterVars == <<logs_dir, threshold, f_pc, f_ret>>
collectVars == <<fs, src, output_dir, min_episodes, c_pc, all_task_info,
                 selected_tasks, c_i, copied>>
reorgVars == <<base, task_folder, r_orig, r_calls, r_moves, r_prev, r_instruction,
               r_found>>
replayVars == <<p_traj, p_items, p_debug, p_logging, p_logged, p_pc, p_exc, p_read,
                p_i, p_sent, p_episodes, p_result, p_prompt>>
driverVars == <<args, runs, d_pc, d_exc, iteration, all_trace_dirs,
                current_traces_dir, replay_traces_dir, unsolved_task_ids, d_log>>
vars == <<logs_dir, threshold, f_pc, f_ret, fs, src, output_dir, min_episodes,
          c_pc, all_task_info, selected_tasks, c_i, copied,
          base, task_folder, r_orig, r_calls, r_moves, r_prev, r_instruction, r_found,
          p_traj, p_items, p_debug, p_logging, p_logged, p_pc, p_exc, p_read,
          p_i, p_sent, p_episodes, p_result, p_prompt,
          args, runs, d_pc, d_exc, iteration, all_trace_dirs,
          current_traces_dir, replay_traces_dir, unsolved_task_ids, d_log>>

(***************************************************************************)
(* Bounds of the model.                                                    *)
(***************************************************************************)
MaxCands == 2        \* entries in one logs root
MaxEpisodes == 12    \* entries in one agent-logs directory
MaxThreshold == 15   \* largest episode threshold passed to the filter
MaxIterations == 2   \* largest --max-iterations the driver is run with

(***************************************************************************)
(* Values.                                                                 *)
(***************************************************************************)
Tasks == {"alpha", "beta"}
NoKey == "<no key>"             \* a key that results.json does not hold
None == -1                      \* Python's None for an int argument
DefaultMinEpisodes == 10        \* the default of --min-episodes and --max-episodes

Thresholds == {None} \cup (0 .. MaxThreshold)

Range(seq) == {seq[i] : i \in 1 .. Len(seq)}

\* The k-th entry os.listdir reports: entries of one directory have distinct names.
DirName(k) == <<"dir1", "dir2", "dir3", "dir4">>[k]

(***************************************************************************)
(* One entry of a logs root.  kind: "file" (not a directory), "empty" (a    *)
(* directory with no child directory whose name contains "1-of-1"), or      *)
(* "trace": the record then describes matching_dirs[0], the only child the   *)
(* code reads.  Fields the code cannot read (results.json is missing, so no  *)
(* key exists) hold their one canonical value.                               *)
(***************************************************************************)
NoTraceFields ==
    [tname |-> "", results |-> "missing", task_id |-> NoKey,
     is_resolved |-> NoKey, has_logs |-> FALSE, entries |-> 0]

Entry(name, kind, t) ==
    [name |-> name, kind |-> kind, tname |-> t.tname, results |-> t.results,
     task_id |-> t.task_id, is_resolved |-> t.is_resolved,
     has_logs |-> t.has_logs, entries |-> t.entries]

\* The trace directories the external runner (or a crash of it) can leave behind.
TraceFields ==
    { [tname |-> "1-of-1", results |-> r, task_id |-> NoKey,
       is_resolved |-> NoKey, has_logs |-> FALSE, entries |-> 0]
        : r \in {"missing", "malformed"} }
    \cup
    { [tname |-> "1-of-1", results |-> "ok", task_id |-> id,
       is_resolved |-> res, has_logs |-> l[1], entries |-> l[2]]
        : id \in Tasks \cup {NoKey},
          res \in {"true", "false", NoKey},
          l \in {<<FALSE, 0>>} \cup {<<TRUE, n>> : n \in 0 .. MaxEpisodes} }

EntriesNamed(name) ==
    {Entry(name, "file", NoTraceFields), Entry(name, "empty", NoTraceFields)}
    \cup {Entry(name, "trace", t) : t \in TraceFields}

RECURSIVE Listings(_)
Listings(n) ==
    IF n = 0 THEN {<<>>}
    ELSE LET shorter == Listings(n - 1) IN
         shorter \cup
         {Append(l, e) : l \in {s \in shorter : Len(s) = n - 1},
                         e \in EntriesNamed(DirName(n))}

(***************************************************************************)
(* get_unsolved_tasks, recovery-bench/utils.py.                             *)
(***************************************************************************)
Returned(ids) == [status |-> "returned", ids |-> ids]
Raised(exc) == [status |-> exc, ids |-> <<>>]
Pending == [status |-> "pending", ids |-> <<>>]

\* The cut read the other way round: the threshold taken as a minimum.
TooManyEpisodes_AsMinimum(entries, min_episodes_desired) ==
    min_episodes_desired # None /\ entries < min_episodes_desired

\* utils.py 85-88: the episode cut.
TooManyEpisodes(entries, min_episodes_desired) ==
    min_episodes_desired # None /\ entries > min_episodes_desired

\* utils.py 59-93: the entry is skipped (every `continue` of the loop body).
Skipped(c, min_episodes_desired) ==
    \/ c.kind = "file"                      \* 59: not is_dir()
    \/ c.kind = "empty"                     \* 66: not matching_dirs
    \/ c.results # "ok"                     \* 74: FileNotFoundError, JSONDecodeError
    \/ c.is_resolved = "true"               \* 77: results.get("is_resolved", False)
    \/ ~c.has_logs                          \* 79: no agent-logs directory
    \/ TooManyEpisodes(c.entries, min_episodes_desired)

RECURSIVE unsolved_loop(_, _, _, _)
unsolved_loop(listing, i, min_episodes_desired, unsolved_ids) ==
    IF i > Len(listing) THEN Returned(unsolved_ids)
    ELSE LET c == listing[i] IN
         IF Skipped(c, min_episodes_desired)
         THEN unsolved_loop(listing, i + 1, min_episodes_desired, unsolved_ids)
         ELSE IF c.task_id = NoKey
         THEN Raised("KeyError")            \* 94: results["task_id"]
         ELSE unsolved_loop(listing, i + 1, min_episodes_desired,
                            Append(unsolved_ids, c.task_id))

get_unsolved_tasks(listing, min_episodes_desired) ==
    unsolved_loop(listing, 1, min_episodes_desired, <<>>)

(***************************************************************************)
(* get_unsolved_tasks, self-correction/register_unsolved_tasks.py: the      *)
(* earlier revision, which catches nothing.                                 *)
(***************************************************************************)
RECURSIVE register_loop(_, _, _, _)
register_loop(listing, i, max_episodes_desired, unsolved_ids) ==
    IF i > Len(listing) THEN Returned(unsolved_ids)
    ELSE LET c == listing[i]
             next == register_loop(listing, i + 1, max_episodes_desired, unsolved_ids)
         IN
         IF c.kind = "file" \/ c.kind = "empty" THEN next            \* 17, 22
         ELSE IF c.results = "missing" THEN Raised("FileNotFoundError")   \* 29
         ELSE IF c.results = "malformed" THEN Raised("JSONDecodeError")   \* 30
         ELSE IF c.is_resolved = NoKey THEN Raised("KeyError")            \* 31
         ELSE IF c.is_resolved = "true" THEN next                    \* 31
         ELSE IF ~c.has_logs THEN next                               \* 33
         ELSE IF TooManyEpisodes(c.entries, max_episodes_desired) THEN next  \* 36
         ELSE IF c.task_id = NoKey THEN Raised("KeyError")           \* 39
         ELSE register_loop(listing, i + 1, max_episodes_desired,
                            Append(unsolved_ids, c.task_id))

register_get_unsolved_tasks(listing, max_episodes_desired) ==
    register_loop(listing, 1, max_episodes_desired, <<>>)

(***************************************************************************)
(* The filter's specification: any logs root, any threshold, one call of    *)
(* either revision.                                                         *)
(***************************************************************************)
CollectIdle ==
    /\ fs = {} /\ src = {} /\ output_dir = "" /\ min_episodes = 0
    /\ c_pc = "idle" /\ all_task_info = <<>> /\ selected_tasks = <<>>
    /\ c_i = 0 /\ copied = <<>>

FilterIdle ==
    /\ logs_dir = <<>> /\ threshold = None /\ f_pc = "idle" /\ f_ret = Pending

NoRead == [commands |-> <<>>, messages |-> <<>>, n_episodes |-> 0]

ReplayIdle ==
    /\ p_traj = "nofolder" /\ p_items = {} /\ p_debug = "missing"
    /\ p_logging = FALSE /\ p_logged = {} /\ p_pc = "idle" /\ p_exc = ""
    /\ p_read = NoRead /\ p_i = 0 /\ p_sent = <<>> /\ p_episodes = <<>>
    /\ p_result = <<>> /\ p_prompt = <<>>

NoDir == <<"", 0>>                 \* no run directory

DriverIdle ==
    /\ args = [revision |-> "", run_initial |-> FALSE, max_iterations |-> 0]
    /\ runs = <<>> /\ d_pc = "idle" /\ d_exc = "" /\ iteration = 0
    /\ all_trace_dirs = <<>> /\ current_traces_dir = NoDir
    /\ replay_traces_dir = NoDir /\ unsolved_task_ids = <<>> /\ d_log = <<>>

ReorgIdle ==
    /\ base = {} /\ task_folder = <<>> /\ r_orig = {}
    /\ r_calls = <<>> /\ r_moves = <<>> /\ r_prev = {}
    /\ r_instruction = "" /\ r_found = <<>>

InitFilter ==
    /\ logs_dir \in Listings(MaxCands)
    /\ threshold \in Thresholds
    /\ f_pc = "start"
    /\ f_ret = Pending
    /\ CollectIdle
    /\ ReorgIdle
    /\ ReplayIdle
    /\ DriverIdle

CallFilter ==
    /\ f_pc = "start"
    /\ f_pc' = "utils"
    /\ f_ret' = get_unsolved_tasks(logs_dir, threshold)
    /\ UNCHANGED <<logs_dir, threshold>>
    /\ UNCHANGED <<collectVars, reorgVars, replayVars, driverVars>>

CallRegisterFilter ==
    /\ f_pc = "start"
    /\ f_pc' = "register"
    /\ f_ret' = register_get_unsolved_tasks(logs_dir, threshold)
    /\ UNCHANGED <<logs_dir, threshold>>
    /\ UNCHANGED <<collectVars, reorgVars, replayVars, driverVars>>

NextFilter == CallFilter \/ CallRegisterFilter

SpecFilter == InitFilter /\ [][NextFilter]_vars


(***************************************************************************)
(* Python dicts keep insertion order: a dict is a sequence of               *)
(* [key, value] records, and assigning to a key that exists keeps its place. *)
(***************************************************************************)
DictKeys(d) == {d[i].key : i \in 1 .. Len(d)}

DictGet(d, k) == d[CHOOSE i \in 1 .. Len(d) : d[i].key = k].value

DictSet(d, k, v) ==
    IF k \in DictKeys(d)
    THEN [i \in 1 .. Len(d) |-> IF d[i].key = k THEN [key |-> k, value |-> v] ELSE d[i]]
    ELSE Append(d, [key |-> k, value |-> v])

(***************************************************************************)
(* find_task_info, recovery-bench/utils.py: the trace directory indexer.    *)
(* A path is <<root, task directory, trace directory>>.                     *)
(***************************************************************************)
\* utils.py 274-294: the entry is skipped.
IndexerSkips(c) ==
    \/ c.kind = "file"                  \* 274: not is_dir()
    \/ c.kind = "empty"                 \* 281: not matching_dirs
    \/ c.results # "ok"                 \* 287, 293: no results.json, or not JSON

RECURSIVE task_info_loop(_, _, _, _)
task_info_loop(root, listing, i, task_info) ==
    IF i > Len(listing) THEN task_info
    ELSE LET c == listing[i]
             is_resolved == c.is_resolved = "true"          \* 296: default False
             actual_task_id == IF c.task_id = NoKey THEN c.name ELSE c.task_id  \* 297
             episode_count == IF c.has_logs THEN c.entries ELSE 0               \* 299-302
             target_dir == <<root, c.name, c.tname>>
         IN
         IF IndexerSkips(c) THEN task_info_loop(root, listing, i + 1, task_info)
         ELSE task_info_loop(root, listing, i + 1,
                  DictSet(task_info, actual_task_id,
                          [task_dir |-> target_dir, episode_count |-> episode_count,
                           is_resolved |-> is_resolved]))

find_task_info(root, listing) == task_info_loop(root, listing, 1, <<>>)

\* utils.py 302 and 85: len(list(agent_logs_dir.iterdir())), the number the
\* `entries` field of a trace stands for: every entry of agent-logs counts,
\* whatever its name or kind.
iterdir_count(names) == Cardinality(names)

(***************************************************************************)
(* find_task_info, self-correction/collect_traces.py: the earlier revision, *)
(* which opens results.json only when it exists and catches nothing.        *)
(***************************************************************************)
RECURSIVE collect_task_info_loop(_, _, _, _)
collect_task_info_loop(root, listing, i, task_info) ==
    IF i > Len(listing) THEN Returned(task_info)
    ELSE LET c == listing[i]
             is_resolved == c.is_resolved = "true"                              \* 42
             actual_task_id == IF c.task_id = NoKey THEN c.name ELSE c.task_id  \* 43
             episode_count == IF c.has_logs THEN c.entries ELSE 0               \* 46-49
             target_dir == <<root, c.name, c.tname>>
         IN
         IF c.kind = "file" \/ c.kind = "empty"                      \* 22, 28
         THEN collect_task_info_loop(root, listing, i + 1, task_info)
         ELSE IF c.results = "missing"                               \* 36
         THEN collect_task_info_loop(root, listing, i + 1, task_info)
         ELSE IF c.results = "malformed" THEN Raised("JSONDecodeError")  \* 40
         ELSE collect_task_info_loop(root, listing, i + 1,
                  DictSet(task_info, actual_task_id,
                          [task_dir |-> target_dir, episode_count |-> episode_count,
                           is_resolved |-> is_resolved]))

collect_find_task_info(root, listing) == collect_task_info_loop(root, listing, 1, <<>>)

(***************************************************************************)
(* The indexer's specification: any logs root, one call of either revision. *)
(* It runs on the filter's variables: logs_dir is the root's listing, f_pc   *)
(* tells which revision ran and f_ret holds the mapping it returned.         *)
(***************************************************************************)
IndexedRoot == "run1"

InitIndex ==
    /\ logs_dir \in Listings(MaxCands)
    /\ threshold = None
    /\ f_pc = "start"
    /\ f_ret = Pending
    /\ CollectIdle
    /\ ReorgIdle
    /\ ReplayIdle
    /\ DriverIdle

CallIndexer ==
    /\ f_pc = "start"
    /\ f_pc' = "utils.find_task_info"
    /\ f_ret' = Returned(find_task_info(IndexedRoot, logs_dir))
    /\ UNCHANGED <<logs_dir, threshold>>
    /\ UNCHANGED <<collectVars, reorgVars, replayVars, driverVars>>

CallCollectIndexer ==
    /\ f_pc = "start"
    /\ f_pc' = "collect_traces.find_task_info"
    /\ f_ret' = collect_find_task_info(IndexedRoot, logs_dir)
    /\ UNCHANGED <<logs_dir, threshold>>
    /\ UNCHANGED <<collectVars, reorgVars, replayVars, driverVars>>

NextIndex == CallIndexer \/ CallCollectIndexer

SpecIndex == InitIndex /\ [][NextIndex]_vars

(***************************************************************************)
(* The collector's file system: a set of trace directories, each a record   *)
(* of its path (root, dir, tname) and of what it holds.  A run's root is     *)
(* named after the run, and the runner names a task's trace directory       *)
(* <task>.1-of-1.<run>.                                                     *)
(***************************************************************************)
logs_dirs == <<"run1", "run2">>          \* the input roots, in argument order
InputRoots == Range(logs_dirs)
OutRoot == "out"                         \* a root that is no input root

EpisodeChoices == {<<FALSE, 0>>, <<TRUE, 5>>, <<TRUE, 8>>}   \* <<agent-logs exists, entries>>
MinEpisodeChoices == {5, 6}

TraceName(task, run) == task \o ".1-of-1." \o run

PathOf(t) == <<t.root, t.dir, t.tname>>

\* What one run can hold for one task: nothing, or a finished trial.
SlotChoices(root, task) ==
    {{}}
    \cup {{ [root |-> root, dir |-> task, tname |-> TraceName(task, root),
             results |-> "ok", task_id |-> task, is_resolved |-> res,
             has_logs |-> l[1], entries |-> l[2]] }
            : res \in {"true", "false"}, l \in EpisodeChoices}

InputTrees ==
    {a \cup b \cup c \cup d :
        a \in SlotChoices("run1", "alpha"), b \in SlotChoices("run1", "beta"),
        c \in SlotChoices("run2", "alpha"), d \in SlotChoices("run2", "beta")}

\* What an earlier collection left under the output root: copies of a task's
\* trace from either run, holding what that trace held then.
StaleCopy(task, run) ==
    [root |-> OutRoot, dir |-> task, tname |-> TraceName(task, run),
     results |-> "ok", task_id |-> task, is_resolved |-> "false",
     has_logs |-> TRUE, entries |-> 1]

PriorTrees ==
    SUBSET {StaleCopy(task, run) : task \in Tasks, run \in InputRoots}

\* The entries of a root in one os.listdir order: every order of its task
\* directories, each with one of its "1-of-1" children as matching_dirs[0].
DirsOf(tree, root) == {t.dir : t \in {x \in tree : x.root = root}}

EntryOfTrace(t) ==
    [name |-> t.dir, kind |-> "trace", tname |-> t.tname, results |-> t.results,
     task_id |-> t.task_id, is_resolved |-> t.is_resolved,
     has_logs |-> t.has_logs, entries |-> t.entries]

RootListings(tree, root) ==
    LET dirs == DirsOf(tree, root)
        n == Cardinality(dirs)
    IN { l \in [1 .. n -> {EntryOfTrace(t) : t \in {x \in tree : x.root = root}}] :
            {l[i].name : i \in 1 .. n} = dirs }

(***************************************************************************)
(* collect_traces, recovery-bench/utils.py.                                 *)
(***************************************************************************)
\* utils.py 321-324: one root's task_info appended to all_task_info.
RECURSIVE append_versions(_, _, _, _)
append_versions(all, task_info, i, logs_dir_) ==
    IF i > Len(task_info) THEN all
    ELSE LET k == task_info[i].key
             v == task_info[i].value
             version == [task_dir |-> v.task_dir, episode_count |-> v.episode_count,
                         is_resolved |-> v.is_resolved, logs_dir |-> logs_dir_]
             old == IF k \in DictKeys(all) THEN DictGet(all, k) ELSE <<>>
         IN append_versions(DictSet(all, k, Append(old, version)), task_info, i + 1,
                            logs_dir_)

\* The filter dropped: resolved versions stay in the running.
unresolved_versions_KeepAll(versions) == versions

\* utils.py 330-334.
unresolved_versions(versions) == SelectSeq(versions, LAMBDA v : ~v.is_resolved)

\* The first unresolved version taken, whatever its episode count.
best_version_First(versions) == versions[1]

\* utils.py 339: max(unresolved_versions, key=lambda x: x[1]), the first of the
\* versions with the largest episode count.
best_version(versions) ==
    versions[CHOOSE i \in 1 .. Len(versions) :
                /\ \A j \in 1 .. Len(versions) :
                        versions[j].episode_count <= versions[i].episode_count
                /\ \A j \in 1 .. i - 1 :
                        versions[j].episode_count < versions[i].episode_count]

\* utils.py 341.
below_minimum(version, min) == version.episode_count < min

\* utils.py 329-345.
RECURSIVE select_loop(_, _, _, _)
select_loop(all, i, min, selected) ==
    IF i > Len(all) THEN selected
    ELSE LET unresolved == unresolved_versions(all[i].value) IN
         IF unresolved = <<>> \/ below_minimum(best_version(unresolved), min)
         THEN select_loop(all, i + 1, min, selected)
         ELSE select_loop(all, i + 1, min,
                          DictSet(selected, all[i].key, best_version(unresolved)))

InitCollect ==
    /\ output_dir \in {OutRoot} \cup InputRoots
    /\ min_episodes \in MinEpisodeChoices
    /\ src \in {i \cup p : i \in InputTrees,
                          p \in IF output_dir = OutRoot THEN PriorTrees ELSE {{}}}
    /\ fs = src
    /\ c_pc = "scan"
    /\ all_task_info = <<>> /\ selected_tasks = <<>> /\ c_i = 0 /\ copied = <<>>
    /\ FilterIdle
    /\ ReorgIdle
    /\ ReplayIdle
    /\ DriverIdle

\* utils.py 313-324.  mkdir creates no trace directory.
CollectScan ==
    /\ c_pc = "scan"
    /\ \E l1 \in RootListings(fs, logs_dirs[1]), l2 \in RootListings(fs, logs_dirs[2]) :
          all_task_info' =
              append_versions(
                  append_versions(<<>>, find_task_info(logs_dirs[1], l1), 1, logs_dirs[1]),
                  find_task_info(logs_dirs[2], l2), 1, logs_dirs[2])
    /\ c_pc' = "select"
    /\ UNCHANGED <<fs, src, output_dir, min_episodes, selected_tasks, c_i, copied>>
    /\ UNCHANGED <<filterVars, reorgVars, replayVars, driverVars>>

\* utils.py 326-349.
CollectSelect ==
    /\ c_pc = "select"
    /\ selected_tasks' = select_loop(all_task_info, 1, min_episodes, <<>>)
    /\ c_i' = 1
    /\ c_pc' = "copy"
    /\ UNCHANGED <<fs, src, output_dir, min_episodes, all_task_info, copied>>
    /\ UNCHANGED <<filterVars, reorgVars, replayVars, driverVars>>

\* utils.py 351-368, one iteration: rmtree of the destination if it exists, then
\* copytree, which raises when the source is gone.
CollectCopy ==
    /\ c_pc = "copy"
    /\ c_i <= Len(selected_tasks)
    /\ LET task_id == selected_tasks[c_i].key
           source_task_dir == selected_tasks[c_i].value.task_dir
           dest_path == <<output_dir, task_id, source_task_dir[3]>>
           removed == {t \in fs : PathOf(t) # dest_path}
           source == {t \in removed : PathOf(t) = source_task_dir}
       IN IF source = {}
          THEN /\ fs' = removed
               /\ c_pc' = "raised"
               /\ UNCHANGED <<c_i, copied>>
          ELSE /\ fs' = removed \cup
                         {[t EXCEPT !.root = output_dir, !.dir = task_id] : t \in source}
               /\ copied' = Append(copied, [task_id |-> task_id,
                                            from |-> source_task_dir,
                                            to |-> dest_path])
               /\ c_i' = c_i + 1
               /\ c_pc' = "copy"
    /\ UNCHANGED <<src, output_dir, min_episodes, all_task_info, selected_tasks>>
    /\ UNCHANGED <<filterVars, reorgVars, replayVars, driverVars>>

\* utils.py 370-371.
CollectReturn ==
    /\ c_pc = "copy"
    /\ c_i > Len(selected_tasks)
    /\ c_pc' = "done"
    /\ UNCHANGED <<fs, src, output_dir, min_episodes, all_task_info, selected_tasks,
                   c_i, copied>>
    /\ UNCHANGED <<filterVars, reorgVars, replayVars, driverVars>>

NextCollect == CollectScan \/ CollectSelect \/ CollectCopy \/ CollectReturn

SpecCollect == InitCollect /\ [][NextCollect]_vars

(***************************************************************************)
(* Hash reorganizer (utils.py 132-261).  A directory name is a sequence of  *)
(* characters, so that the length, index, slice and prefix tests of the     *)
(* code are computed on it.  An entry under the base path has a name, a     *)
(* kind ("dir" or "file") and, for a directory, the names of the            *)
(* subdirectories it holds.                                                 *)
(***************************************************************************)
MaxDirs == 3     \* entries under the base path
MaxCalls == 2    \* transforms run in one behaviour

foo == <<"f", "o", "o">>
bar == <<"b", "a", "r">>
dot == <<".">>
dash == <<"-">>
abcdef12 == <<"a", "b", "c", "d", "e", "f", "1", "2">>
hash_0a1b2c3d == <<"0", "a", "1", "b", "2", "c", "3", "d">>
runlogs0 == <<"r", "u", "n", "l", "o", "g", "s", "0">>     \* 8 characters, not hex

one_of_one == <<"1", "-", "o", "f", "-", "1">>

\* The inner trial directory "<task>.1-of-1".
TrialOf(name) == name \o dot \o one_of_one

NoDescription == "<none>"                 \* extract_task_description returned None
Instructions == {"instruction A", "instruction B"}

\* utils.py 17-19: the first 8 hex digits of the SHA-256 digest, as a table on
\* the instructions of the model; distinct instructions have distinct hashes.
create_task_hash(task_description) ==
    IF task_description = "instruction A" THEN abcdef12 ELSE hash_0a1b2c3d

\* str.lower on one character, for the characters the names of the model hold.
lower(c) ==
    CASE c = "A" -> "a" [] c = "B" -> "b" [] c = "C" -> "c"
      [] c = "D" -> "d" [] c = "E" -> "e" [] c = "F" -> "f" [] OTHER -> c

HexDigits == {"0", "1", "2", "3", "4", "5", "6", "7", "8", "9",
              "a", "b", "c", "d", "e", "f"}

startswith(s, prefix) ==
    Len(s) >= Len(prefix) /\ SubSeq(s, 1, Len(prefix)) = prefix
endswith(s, suffix) ==
    Len(s) >= Len(suffix) /\ SubSeq(s, Len(s) - Len(suffix) + 1, Len(s)) = suffix

SkippedSuffixes == {<<".", "j", "s", "o", "n">>, <<".", "l", "o", "g">>,
                    <<".", "l", "o", "c", "k">>}

\* utils.py 142-146 and 171-175: the items both scans look at.
IsScannedItem(item) ==
    /\ item.kind = "dir"
    /\ ~startswith(item.name, dot)
    /\ \A suffix \in SkippedSuffixes : ~endswith(item.name, suffix)

\* utils.py 132-158: path -> name, in listing order; both branches of the inner
\* test store the same value.
find_task_directories(listing) == SelectSeq(listing, IsScannedItem)

\* utils.py 176-178 and 186-188: len(name) > 9, name[8] == "-", name[:8] hex.
HasHashShape(name) ==
    /\ Len(name) > 9
    /\ name[9] = "-"
    /\ \A i \in 1 .. 8 : lower(name[i]) \in HexDigits

\* utils.py 161-181: hash_dirs[hash_part] = [str(item)] replaces the list an
\* earlier item with the same first 8 characters stored.
RECURSIVE find_hash_directories_loop(_, _, _)
find_hash_directories_loop(listing, i, hash_dirs) ==
    IF i > Len(listing) THEN hash_dirs
    ELSE find_hash_directories_loop(listing, i + 1,
            IF IsScannedItem(listing[i]) /\ HasHashShape(listing[i].name)
            THEN DictSet(hash_dirs, SubSeq(listing[i].name, 1, 8), <<listing[i].name>>)
            ELSE hash_dirs)

find_hash_directories(listing) == find_hash_directories_loop(listing, 1, <<>>)

\* The check dropped: no directory counts as prefixed.
is_hash_prefixed_directory_Never(item) == FALSE

\* utils.py 184-194.
is_hash_prefixed_directory(item) ==
    /\ HasHashShape(item.name)
    /\ LET name_after_dash == SubSeq(item.name, 10, Len(item.name))
       IN \E subitem \in item.inner : startswith(subitem, name_after_dash \o dot)

\* utils.py 105-129: the instruction of <task_folder>/<task_name>/task.yaml, or
\* None when there is no such file.
extract_task_description(task_name, defs) ==
    IF task_name \in DOMAIN defs THEN defs[task_name] ELSE NoDescription

\* shutil.move(src, dst) on the entries of the base path: a rename when dst does
\* not exist; a move into dst when dst is a directory, which raises when dst
\* already holds an entry of src's name; an exception when dst is a file.
move(b, src_name, dst_name) ==
    LET srcs == {e \in b : e.name = src_name}
        dsts == {e \in b : e.name = dst_name}
        raised == [base |-> b, outcome |-> "raised"]
    IN IF srcs = {} THEN raised
       ELSE IF dsts = {}
       THEN [base |-> (b \ srcs) \cup {[e EXCEPT !.name = dst_name] : e \in srcs},
             outcome |-> "renamed"]
       ELSE IF \E d \in dsts : d.kind = "file" \/ src_name \in d.inner THEN raised
       ELSE [base |-> (b \ (srcs \cup dsts))
                        \cup {[d EXCEPT !.inner = @ \cup {src_name}] : d \in dsts},
             outcome |-> "nested"]

\* utils.py 206-219: path -> hash for the directories to rename.
RECURSIVE task_to_hash_loop(_, _, _, _)
task_to_hash_loop(task_dirs, i, defs, task_to_hash) ==
    IF i > Len(task_dirs) THEN task_to_hash
    ELSE LET task_name == task_dirs[i].name
             task_description == extract_task_description(task_name, defs)
         IN task_to_hash_loop(task_dirs, i + 1, defs,
                IF is_hash_prefixed_directory(task_dirs[i]) THEN task_to_hash
                ELSE IF task_description # NoDescription
                THEN DictSet(task_to_hash, task_name, create_task_hash(task_description))
                ELSE task_to_hash)

\* utils.py 221-230: the moves, each in its own try/except.
RECURSIVE forward_moves(_, _, _, _)
forward_moves(b, task_to_hash, i, moves) ==
    IF i > Len(task_to_hash) THEN [base |-> b, moves |-> moves]
    ELSE LET task_name == task_to_hash[i].key
             new_task_dir == task_to_hash[i].value \o dash \o task_name
             m == move(b, task_name, new_task_dir)
         IN forward_moves(m.base, task_to_hash, i + 1,
                Append(moves, [src |-> task_name, dst |-> new_task_dir,
                               outcome |-> m.outcome]))

\* utils.py 197-232.
reorganize_directories(b, listing, defs) ==
    LET task_dirs == find_task_directories(listing)
    IN IF task_dirs = <<>> THEN [base |-> b, moves |-> <<>>]
       ELSE forward_moves(b, task_to_hash_loop(task_dirs, 1, defs, <<>>), 1, <<>>)

\* utils.py 246-259: every list of hash_dirs holds one path.
RECURSIVE reverse_moves(_, _, _, _)
reverse_moves(b, hash_dirs, i, moves) ==
    IF i > Len(hash_dirs) THEN [base |-> b, moves |-> moves]
    ELSE LET task_name == hash_dirs[i].value[1]
             original_name == SubSeq(task_name, 10, Len(task_name))
             m == move(b, task_name, original_name)
         IN reverse_moves(m.base, hash_dirs, i + 1,
                Append(moves, [src |-> task_name, dst |-> original_name,
                               outcome |-> m.outcome]))

\* utils.py 235-261.
reverse_reorganize_directories(b, listing) ==
    LET hash_dirs == find_hash_directories(listing)
    IN IF hash_dirs = <<>> THEN [base |-> b, moves |-> <<>>]
       ELSE reverse_moves(b, hash_dirs, 1, <<>>)

\* The entries a base path may hold when the first transform runs.
Dir(name, inner) == [name |-> name, kind |-> "dir", inner |-> inner]
File(name) == [name |-> name, kind |-> "file", inner |-> {}]

EntryChoices ==
    {Dir(foo, {}), Dir(foo, {TrialOf(foo)}), File(foo),
     Dir(bar, {}), Dir(bar, {TrialOf(bar)}), File(bar),
     Dir(abcdef12 \o dash \o foo, {}), Dir(abcdef12 \o dash \o foo, {TrialOf(foo)}),
     Dir(abcdef12 \o dash \o bar, {}), Dir(abcdef12 \o dash \o bar, {TrialOf(bar)}),
     Dir(runlogs0 \o dash \o foo, {TrialOf(foo)}),
     Dir(<<".", "c", "a", "c", "h", "e">>, {}),
     Dir(<<"r", "u", "n", ".", "l", "o", "g">>, {})}

BasePaths ==
    {b \in SUBSET EntryChoices :
        /\ Cardinality(b) <= MaxDirs
        /\ \A e1 \in b, e2 \in b : e1.name = e2.name => e1 = e2}

\* The task folder defines foo and bar, each with one of the instructions or
\* not at all; it may also define a task whose own name has the shape of a
\* hash prefix.
TaskFolders ==
    {f \in [{foo, bar, abcdef12 \o dash \o foo} -> Instructions \cup {NoDescription}] :
        f[abcdef12 \o dash \o foo] # "instruction A"}

\* os.listdir / Path.iterdir yield the entries in an order the code does not
\* control.
ListingsOf(b) ==
    {l \in [1 .. Cardinality(b) -> b] : \A i, j \in 1 .. Cardinality(b) : l[i] = l[j] => i = j}

InitReorg ==
    /\ base \in BasePaths
    /\ task_folder \in TaskFolders
    /\ r_orig = base
    /\ r_calls = <<>>
    /\ r_moves = <<>>
    /\ r_prev = base
    /\ r_instruction = "" /\ r_found = <<>>
    /\ FilterIdle
    /\ CollectIdle
    /\ ReplayIdle
    /\ DriverIdle

Reorganize ==
    /\ Len(r_calls) < MaxCalls
    /\ \E listing \in ListingsOf(base) :
          LET r == reorganize_directories(base, listing, task_folder)
          IN base' = r.base /\ r_moves' = r.moves
    /\ r_prev' = base
    /\ r_calls' = Append(r_calls, "forward")
    /\ UNCHANGED <<task_folder, r_orig, r_instruction, r_found>>
    /\ UNCHANGED <<filterVars, collectVars, replayVars, driverVars>>

ReverseReorganize ==
    /\ Len(r_calls) < MaxCalls
    /\ \E listing \in ListingsOf(base) :
          LET r == reverse_reorganize_directories(base, listing)
          IN base' = r.base /\ r_moves' = r.moves
    /\ r_prev' = base
    /\ r_calls' = Append(r_calls, "reverse")
    /\ UNCHANGED <<task_folder, r_orig, r_instruction, r_found>>
    /\ UNCHANGED <<filterVars, collectVars, replayVars, driverVars>>

\* "sub" in s.
contains(s, sub) ==
    \E i \in 1 .. (Len(s) - Len(sub) + 1) : SubSeq(s, i, i + Len(sub) - 1) = sub

NoFolder == <<>>                          \* _find_trajectory_folder returned None

\* The lookup matching any name of hash shape, not the task's hash.
find_trajectory_folder_AnyHash(listing, task_hash) ==
    LET matches == SelectSeq(listing,
                       LAMBDA item : item.kind = "dir" /\ HasHashShape(item.name))
    IN IF matches = <<>> THEN {NoFolder}
       ELSE LET subdirs == {subdir \in matches[1].inner : contains(subdir, one_of_one)}
            IN IF subdirs = {} THEN {NoFolder}
               ELSE {<<matches[1].name, subdir>> : subdir \in subdirs}

\* replay_agent.py 80-106: the first directory listed whose name starts with
\* "<task_hash>-", then the first of its subdirectories with "1-of-1" in its
\* name; the folders the call can return, over the listing orders of the
\* subdirectories.
find_trajectory_folder(listing, task_hash) ==
    LET matches == SelectSeq(listing,
                       LAMBDA item : item.kind = "dir"
                                     /\ startswith(item.name, task_hash \o dash))
    IN IF matches = <<>> THEN {NoFolder}
       ELSE LET trajectory_base == matches[1]
                subdirs == {subdir \in trajectory_base.inner : contains(subdir, one_of_one)}
            IN IF subdirs = {} THEN {NoFolder}
               ELSE {<<trajectory_base.name, subdir>> : subdir \in subdirs}

\* replay_agent.py 110-112: the replay agent looks up the trajectory folder of
\* an instruction under the root the reorganizer worked on.
FindTrajectoryFolder ==
    /\ Len(r_calls) < MaxCalls
    /\ \E instruction \in Instructions, listing \in ListingsOf(base) :
          /\ r_instruction' = instruction
          /\ r_found' \in find_trajectory_folder(listing, create_task_hash(instruction))
    /\ r_calls' = Append(r_calls, "find")
    /\ UNCHANGED <<base, task_folder, r_orig, r_moves, r_prev>>
    /\ UNCHANGED <<filterVars, collectVars, replayVars, driverVars>>

NextReorg == Reorganize \/ ReverseReorganize \/ FindTrajectoryFolder

SpecReorg == InitReorg /\ [][NextReorg]_vars

(***************************************************************************)
(* Replay reconstructor (replay_agent.py).  An entry of the agent-logs      *)
(* directory has a name (a sequence of characters), a kind and, for an      *)
(* episode directory, the state of its response.json: "missing",            *)
(* "malformed", or parsed with is_task_complete false ("incomplete") or     *)
(* true ("complete").  The command batch of an episode is identified by the *)
(* name of its directory.  debug.json is read in the last episode directory *)
(* only, and p_debug is its state there.                                    *)
(***************************************************************************)
MaxLogEntries == 3      \* entries in the agent-logs directory
MaxLoopEpisodes == 2    \* self._max_episodes of the resumed agent loop

episode_ == <<"e", "p", "i", "s", "o", "d", "e", "-">>
episodes_replayed_txt ==
    <<"e", "p", "i", "s", "o", "d", "e", "s", "_", "r", "e", "p", "l", "a", "y", "e", "d",
      ".", "t", "x", "t">>

Digits == <<"0", "1", "2", "3", "4", "5", "6", "7", "8", "9">>
DigitValue(c) == (CHOOSE i \in 1 .. 10 : Digits[i] = c) - 1

\* int(text): <<value>>, or <<>> for ValueError.
RECURSIVE int_loop(_, _, _)
int_loop(text, i, value) ==
    IF i > Len(text) THEN <<value>>
    ELSE IF text[i] \notin Range(Digits) THEN <<>>
    ELSE int_loop(text, i + 1, 10 * value + DigitValue(text[i]))

int(text) == IF text = <<>> THEN <<>> ELSE int_loop(text, 1, 0)

\* name.split("-")[1], for a name that holds a "-".
split_1(name) ==
    LET first == CHOOSE i \in 1 .. Len(name) :
                     name[i] = "-" /\ \A j \in 1 .. (i - 1) : name[j] # "-"
        rest == SubSeq(name, first + 1, Len(name))
        stops == {i \in 1 .. Len(rest) : rest[i] = "-"}
    IN IF stops = {} THEN rest
       ELSE SubSeq(rest, 1, (CHOOSE i \in stops : \A j \in stops : i <= j) - 1)

\* replay_agent.py 125-132: (episode_num, item) for the episode directories, in
\* listing order.
RECURSIVE episode_dirs_loop(_, _, _)
episode_dirs_loop(listing, i, episode_dirs) ==
    IF i > Len(listing) THEN episode_dirs
    ELSE LET item == listing[i]
             episode_num == int(split_1(item.name))
         IN episode_dirs_loop(listing, i + 1,
                IF item.kind = "dir" /\ startswith(item.name, episode_) /\ episode_num # <<>>
                THEN Append(episode_dirs, [num |-> episode_num[1], item |-> item])
                ELSE episode_dirs)

\* The sort left out: the episodes stay in listing order.
sorted_by_num_AsListed(episode_dirs) == episode_dirs

\* replay_agent.py 153: list.sort(key=lambda x: x[0]), a stable sort.
RECURSIVE sorted_by_num(_)
sorted_by_num(episode_dirs) ==
    IF episode_dirs = <<>> THEN <<>>
    ELSE LET n == Len(episode_dirs)
             least == CHOOSE i \in 1 .. n :
                          /\ \A j \in 1 .. n : episode_dirs[i].num <= episode_dirs[j].num
                          /\ \A j \in 1 .. (i - 1) : episode_dirs[j].num # episode_dirs[i].num
         IN <<episode_dirs[least]>>
            \o sorted_by_num(SubSeq(episode_dirs, 1, least - 1)
                             \o SubSeq(episode_dirs, least + 1, n))

\* replay_agent.py 69-78: the parsed response, or None.
NoResponse == [parsed |-> FALSE, commands |-> <<>>, is_task_complete |-> FALSE]
read_episode_response(episode_dir) ==
    IF episode_dir.response \in {"incomplete", "complete"}
    THEN [parsed |-> TRUE, commands |-> episode_dir.name,
          is_task_complete |-> (episode_dir.response = "complete")]
    ELSE NoResponse

\* Every episode taken to hold a batch, parsed or not.
commands_loop_EveryEpisode(episode_dirs, i, commands) ==
    [k \in 1 .. Len(episode_dirs) |-> episode_dirs[k].item.name]

\* replay_agent.py 156-159: the batches of the episodes whose response parses.
RECURSIVE commands_loop(_, _, _)
commands_loop(episode_dirs, i, commands) ==
    IF i > Len(episode_dirs) THEN commands
    ELSE LET parsed_response == read_episode_response(episode_dirs[i].item)
         IN commands_loop(episode_dirs, i + 1,
                IF parsed_response.parsed THEN Append(commands, parsed_response.commands)
                ELSE commands)

\* A message: its role and its content, which is a string ("text"), a list of
\* parts ("parts") or the JSON dump of a response ("response").  A part is a
\* dict with a "type" and, for a text part, a "text".
NoText == "<no text>"               \* the part has no "text" key
TextPart(text) == [type |-> "text", text |-> text]
ImagePart == [type |-> "image_url", text |-> NoText]
TextMessage(role, text) ==
    [role |-> role, kind |-> "text", text |-> text, parts |-> <<>>,
     commands |-> <<>>, is_task_complete |-> FALSE]
PartsMessage(role, parts) ==
    [role |-> role, kind |-> "parts", text |-> "", parts |-> parts,
     commands |-> <<>>, is_task_complete |-> FALSE]
ResponseMessage(role, response) ==
    [role |-> role, kind |-> "response", text |-> "", parts |-> <<>>,
     commands |-> response.commands, is_task_complete |-> response.is_task_complete]

\* replay_agent.py 163-171: debug_data["input"] when debug.json parses and holds
\* a list under "input", no message otherwise.
debug_input(debug) ==
    CASE debug = "text" -> <<TextMessage("user", "prompt")>>
      [] debug = "parts" -> <<TextMessage("user", "prompt"),
                              PartsMessage("assistant", <<TextPart("reply"),
                                                          TextPart("cache note")>>)>>
      [] debug = "image_first" -> <<PartsMessage("user", <<ImagePart, TextPart("prompt")>>),
                                    TextMessage("assistant", "reply")>>
      [] OTHER -> <<>>

\* The flag left as recorded.
force_incomplete_AsRecorded(parsed_response) == parsed_response

\* replay_agent.py 175-176.
force_incomplete(parsed_response) ==
    [parsed_response EXCEPT !.is_task_complete = FALSE]

\* replay_agent.py 234: message["content"][0].
first_part(parts) == parts[1]

\* replay_agent.py 227-238: status is "ok", or "KeyError" when the first part
\* of a list content has no "text".
clean_debug_messages(messages) ==
    IF \E i \in 1 .. Len(messages) :
          messages[i].kind = "parts" /\ first_part(messages[i].parts).text = NoText
    THEN [status |-> "KeyError", messages |-> <<>>]
    ELSE [status |-> "ok",
          messages |-> [i \in 1 .. Len(messages) |->
                           IF messages[i].kind = "parts"
                           THEN TextMessage(messages[i].role,
                                            first_part(messages[i].parts).text)
                           ELSE messages[i]]]

\* replay_agent.py 134-150: the names in logging_dir after the copy.
logged_after(listing, logging, logged) ==
    IF logging
    THEN logged \cup {listing[i].name : i \in 1 .. Len(listing)} \cup {episodes_replayed_txt}
    ELSE logged

\* replay_agent.py 108-187.  status is "ok", "IndexError" when
\* episode_dirs[-1] is evaluated on an empty list, or the exception of
\* _clean_debug_messages.
read_trajectories(traj, listing, debug, logging, logged) ==
    IF traj # "logs"
    THEN [status |-> "ok", read |-> NoRead, logged |-> logged]
    ELSE LET episode_dirs == sorted_by_num(episode_dirs_loop(listing, 1, <<>>))
             commands == commands_loop(episode_dirs, 1, <<>>)
             now_logged == logged_after(listing, logging, logged)
         IN IF episode_dirs = <<>>
            THEN [status |-> "IndexError", read |-> NoRead, logged |-> now_logged]
            ELSE LET last_episode_dir == episode_dirs[Len(episode_dirs)].item
                     parsed_response == read_episode_response(last_episode_dir)
                     messages ==
                         IF parsed_response.parsed
                         THEN Append(debug_input(debug),
                                     ResponseMessage("assistant",
                                                     force_incomplete(parsed_response)))
                         ELSE debug_input(debug)
                     cleaned == clean_debug_messages(messages)
                 IN IF cleaned.status # "ok"
                    THEN [status |-> cleaned.status, read |-> NoRead,
                          logged |-> now_logged]
                    ELSE [status |-> "ok",
                          read |-> [commands |-> commands,
                                    messages |-> cleaned.messages,
                                    n_episodes |-> Len(episode_dirs)],
                          logged |-> now_logged]

\* The entries an agent-logs directory may hold.
Episode(suffix, response) ==
    [name |-> episode_ \o suffix, kind |-> "dir", response |-> response]
EpisodeSuffixes == {<<"0">>, <<"1">>, <<"2">>, <<"1", "0">>}
ResponseChoices == {"missing", "malformed", "incomplete", "complete"}
OtherEntries ==
    {[name |-> episode_ \o <<"x">>, kind |-> "dir", response |-> "missing"],
     [name |-> episodes_replayed_txt, kind |-> "file", response |-> "missing"]}
DebugChoices == {"missing", "malformed", "text", "parts", "image_first"}

AgentLogs ==
    {e \in SUBSET ({Episode(x, r) : x \in EpisodeSuffixes, r \in ResponseChoices}
                   \cup OtherEntries) :
        /\ Cardinality(e) <= MaxLogEntries
        /\ \A a \in e, b \in e : a.name = b.name => a = b}

InitReplay ==
    /\ p_traj \in {"nofolder", "nologs", "logs"}
    /\ p_items \in IF p_traj = "logs" THEN AgentLogs ELSE {{}}
    /\ p_debug \in IF p_items = {} THEN {"missing"} ELSE DebugChoices
    /\ p_logging \in BOOLEAN
    /\ p_logged = {}
    /\ p_pc = "start"
    /\ p_exc = ""
    /\ p_read = NoRead
    /\ p_i = 0
    /\ p_sent = <<>>
    /\ p_episodes = <<>>
    /\ p_result = <<>>
    /\ p_prompt = <<>>
    /\ FilterIdle
    /\ CollectIdle
    /\ ReorgIdle
    /\ DriverIdle

\* The guard left out.
no_commands_Never(commands) == FALSE

\* replay_agent.py 44.
no_commands(commands) == Len(commands) = 0

\* replay_agent.py 37-45: _read_trajectories and the test of its result.
ReadTrajectories ==
    /\ p_pc = "start"
    /\ \E listing \in ListingsOf(p_items) :
          LET r == read_trajectories(p_traj, listing, p_debug, p_logging, p_logged)
          IN /\ p_logged' = r.logged
             /\ p_read' = r.read
             /\ IF r.status # "ok"
                THEN p_pc' = "raised" /\ p_exc' = r.status /\ p_i' = p_i
                ELSE IF no_commands(r.read.commands)
                THEN p_pc' = "raised" /\ p_exc' = "No commands found for task" /\ p_i' = p_i
                ELSE p_pc' = "replay" /\ p_exc' = p_exc /\ p_i' = 1
    /\ UNCHANGED <<p_traj, p_items, p_debug, p_logging, p_sent, p_episodes, p_result,
                   p_prompt>>
    /\ UNCHANGED <<filterVars, collectVars, reorgVars, driverVars>>

\* The exception swallowed: the loop goes on to the next batch.
on_execute_error_Continue(i) == [pc |-> "replay", exc |-> "", i |-> i + 1]

\* replay_agent.py 194-198: the exception is printed and raised again.
on_execute_error(i) == [pc |-> "raised", exc |-> "ExecuteError", i |-> i]

\* The terminal output _execute_commands returns for a batch.
pane_output(command_list) == <<"o", "u", "t", ":">> \o command_list

\* The output of the first batch kept.
captured_First(result, output) == IF result = <<>> THEN output ELSE result

\* replay_agent.py 193: `_, result = ...` rebinds result at every batch.
captured(result, output) == output

\* replay_agent.py 191-198, one iteration: the batch goes to the session, and
\* _execute_commands returns or raises.
ReplayBatch ==
    /\ p_pc = "replay"
    /\ p_i <= Len(p_read.commands)
    /\ \E raises \in BOOLEAN :
          /\ p_sent' = Append(p_sent, [commands |-> p_read.commands[p_i], raised |-> raises])
          /\ IF raises
             THEN /\ p_pc' = on_execute_error(p_i).pc
                  /\ p_exc' = on_execute_error(p_i).exc
                  /\ p_i' = on_execute_error(p_i).i
                  /\ p_result' = p_result
             ELSE /\ p_pc' = p_pc /\ p_exc' = p_exc /\ p_i' = p_i + 1
                  /\ p_result' = captured(p_result, pane_output(p_read.commands[p_i]))
    /\ UNCHANGED <<p_traj, p_items, p_debug, p_logging, p_logged, p_read, p_episodes,
                   p_prompt>>
    /\ UNCHANGED <<filterVars, collectVars, reorgVars, driverVars>>

\* replay_agent.py 199 and 50-60: `return result` after the last batch (result
\* is unbound when there was no batch), then the chat is seeded and the agent
\* loop entered.
StartAgentLoop ==
    /\ p_pc = "replay"
    /\ p_i > Len(p_read.commands)
    /\ IF Len(p_read.commands) = 0
       THEN p_pc' = "raised" /\ p_exc' = "UnboundLocalError" /\ p_prompt' = p_prompt
       ELSE p_pc' = "loop" /\ p_exc' = p_exc /\ p_prompt' = p_result
    /\ UNCHANGED <<p_traj, p_items, p_debug, p_logging, p_logged, p_read, p_i, p_sent,
                   p_episodes, p_result>>
    /\ UNCHANGED <<filterVars, collectVars, reorgVars, driverVars>>

\* str(n) for 0 <= n < 100.
str(n) == IF n < 10 THEN <<Digits[n + 1]>>
          ELSE <<Digits[(n \div 10) + 1], Digits[(n % 10) + 1]>>

\* The counter reset: range(0, self._max_episodes).
first_episode_Last(n_episodes) == n_episodes - 1

first_episode_Zero(n_episodes) == 0

\* replay_agent.py 212: range(n_episodes, n_episodes + self._max_episodes).
first_episode(n_episodes) == n_episodes

\* replay_agent.py 212-225, one iteration: the episode's logging directory is
\* set up, the model answers, its commands run; the loop goes on, breaks on
\* is_task_complete, or an exception leaves it.
AgentLoopEpisode ==
    /\ p_pc = "loop"
    /\ Len(p_episodes) < MaxLoopEpisodes
    /\ LET episode == first_episode(p_read.n_episodes) + Len(p_episodes)
       IN /\ p_episodes' = Append(p_episodes, episode)
          /\ p_logged' = IF p_logging THEN p_logged \cup {episode_ \o str(episode)}
                         ELSE p_logged
    /\ \E outcome \in {"continue", "complete", "raise"} :
          /\ p_pc' = CASE outcome = "continue" -> "loop"
                       [] outcome = "complete" -> "returned"
                       [] OTHER -> "raised"
          /\ p_exc' = IF outcome = "raise" THEN "AgentLoopError" ELSE p_exc
    /\ UNCHANGED <<p_traj, p_items, p_debug, p_logging, p_read, p_i, p_sent, p_result,
                   p_prompt>>
    /\ UNCHANGED <<filterVars, collectVars, reorgVars, driverVars>>

\* replay_agent.py 212 and 62-67: the range is exhausted and perform_task
\* returns its AgentResult.
AgentLoopExhausted ==
    /\ p_pc = "loop"
    /\ Len(p_episodes) = MaxLoopEpisodes
    /\ p_pc' = "returned"
    /\ UNCHANGED <<p_traj, p_items, p_debug, p_logging, p_logged, p_exc, p_read, p_i,
                   p_sent, p_episodes, p_result, p_prompt>>
    /\ UNCHANGED <<filterVars, collectVars, reorgVars, driverVars>>

NextReplay ==
    \/ ReadTrajectories
    \/ ReplayBatch
    \/ StartAgentLoop
    \/ AgentLoopEpisode
    \/ AgentLoopExhausted

SpecReplay == InitReplay /\ [][NextReplay]_vars

(***************************************************************************)
(* The pipeline driver: main of recovery-bench/generate_traces.py and of    *)
(* its earlier revision self-correction/generate_traces.py.  The external   *)
(* runner is the environment: a `tb run` ends with any return code and      *)
(* leaves any run directory behind, or none when it failed.                 *)
(***************************************************************************)
InitialDir == <<"initial", 0>>      \* runs/initial-{model_short}-{timestamp}
ReplayDir(i) == <<"replay", i>>     \* runs/replay-{model_short}-{timestamp}-iter{i}
RunDirs == {InitialDir} \cup {ReplayDir(i) : i \in 1 .. MaxIterations}

Revisions == {"recovery-bench", "self-correction"}

\* The command lines: --run-initial exists in recovery-bench only.
ArgChoices ==
    { a \in [revision : Revisions, run_initial : BOOLEAN,
             max_iterations : 0 .. MaxIterations]
        : a.run_initial => a.revision = "recovery-bench" }

Absent == [exists |-> FALSE, reorganized |-> FALSE, listing |-> <<>>]
Present(listing) == [exists |-> TRUE, reorganized |-> FALSE, listing |-> listing]

\* The traces a run leaves: one task at most, few or many episodes.
RunTraces ==
    { t \in TraceFields : /\ t.results = "ok" /\ t.has_logs
                          /\ t.entries \in {1, MaxEpisodes}
                          /\ t.is_resolved # NoKey
                          /\ t.task_id # "beta" }
RunListings == {<<>>} \cup {<<Entry(DirName(1), "trace", t)>> : t \in RunTraces}

\* subprocess.run of `tb run`: the return code and the run directory left.
TbRun ==
    { [returncode |-> 0, dir |-> Present(l)] : l \in RunListings }
    \cup { [returncode |-> 1, dir |-> d]
             : d \in {Absent} \cup {Present(l) : l \in RunListings} }

\* run_command: recovery-bench returns the result whatever the return code,
\* self-correction ends the process on a non-zero one.
run_command_exits(revision, returncode) ==
    revision = "self-correction" /\ returncode # 0

\* get_unsolved_tasks as main calls it, with the run directory as a str.
\* recovery-bench converts it to a Path; self-correction does not, and
\* `logs_dir / unsolved_id` is str / str as soon as the directory has an entry.
driver_get_unsolved_tasks(revision, dir) ==
    IF ~dir.exists THEN Raised("FileNotFoundError")          \* os.listdir
    ELSE IF revision = "recovery-bench"
    THEN get_unsolved_tasks(dir.listing, DefaultMinEpisodes)
    ELSE IF Len(dir.listing) > 0 THEN Raised("TypeError")
    ELSE register_get_unsolved_tasks(dir.listing, DefaultMinEpisodes)

\* reorganize_directories on a run directory: a missing base path is reported
\* and left alone (find_task_directories returns no directory).
reorganized_run(dir) ==
    IF dir.exists THEN [dir EXCEPT !.reorganized = TRUE] ELSE dir

\* One entry of the stage log: the stage main started, the run directory it
\* wrote or read, the trajectory folder a replay ran against, the list handed
\* to the collector, the task ids a filter returned, whether it raised, and
\* the return code of the stage's `tb run` (0 for a stage that runs none).
Stage(stage, dir, against, dirs, ids, raised, returncode) ==
    [stage |-> stage, dir |-> dir, against |-> against, dirs |-> dirs,
     ids |-> ids, raised |-> raised, returncode |-> returncode]

\* The test that never ends the loop.
no_unsolved_Ignored(ids) == FALSE

\* `if not unsolved_task_ids:` of main and of run_replay_agent_for_unsolved.
no_unsolved(ids) == Len(ids) = 0

\* The list that keeps the last directory only.
retained_OnlyLast(dirs, dir) == <<dir>>

\* all_trace_dirs.append(replay_traces_dir)
retained(dirs, dir) == Append(dirs, dir)

\* for iteration in range(1, args.max_iterations + 1): the next stage.
after_round(i, max_iterations) == IF i <= max_iterations THEN "filter" ELSE "collect"

InitPipeline ==
    /\ args \in ArgChoices
    /\ runs = [d \in RunDirs |-> Absent]
    /\ d_pc = "generate"
    /\ d_exc = ""
    /\ iteration = 0
    /\ all_trace_dirs = <<>>
    /\ current_traces_dir = NoDir
    /\ replay_traces_dir = NoDir
    /\ unsolved_task_ids = <<>>
    /\ d_log = <<>>
    /\ FilterIdle
    /\ CollectIdle
    /\ ReorgIdle
    /\ ReplayIdle

\* Step 1: generate_initial_traces, then the --run-initial return.
GenerateInitialTraces ==
    /\ d_pc = "generate"
    /\ \E tb \in TbRun :
         /\ runs' = [runs EXCEPT ![InitialDir] = tb.dir]
         /\ d_log' = Append(d_log, Stage("generate", InitialDir, NoDir, <<>>, <<>>,
                                            FALSE, tb.returncode))
         /\ IF run_command_exits(args.revision, tb.returncode)
            THEN d_pc' = "exited" /\ d_exc' = "SystemExit"
            ELSE /\ d_pc' = IF args.run_initial THEN "returned" ELSE "reorganize_initial"
                 /\ d_exc' = ""
    /\ UNCHANGED <<args, iteration, all_trace_dirs, current_traces_dir,
                   replay_traces_dir, unsolved_task_ids>>
    /\ UNCHANGED <<filterVars, collectVars, reorgVars, replayVars>>

\* Step 2: reorganize the initial run, start the list and the loop.
ReorganizeInitial ==
    /\ d_pc = "reorganize_initial"
    /\ runs' = [runs EXCEPT ![InitialDir] = reorganized_run(@)]
    /\ d_log' = Append(d_log, Stage("reorganize", InitialDir, NoDir, <<>>, <<>>, FALSE, 0))
    /\ all_trace_dirs' = <<InitialDir>>
    /\ current_traces_dir' = InitialDir
    /\ iteration' = 1
    /\ d_pc' = after_round(1, args.max_iterations)
    /\ UNCHANGED <<args, d_exc, replay_traces_dir, unsolved_task_ids>>
    /\ UNCHANGED <<filterVars, collectVars, reorgVars, replayVars>>

\* Step 3, first half of a round: the filter and the break.
FilterUnsolved ==
    /\ d_pc = "filter"
    /\ LET ret == driver_get_unsolved_tasks(args.revision, runs[current_traces_dir]) IN
       IF ret.status # "returned"
       THEN /\ d_pc' = "raised" /\ d_exc' = ret.status
            /\ d_log' = Append(d_log, Stage("filter", current_traces_dir, NoDir,
                                            <<>>, <<>>, TRUE, 0))
            /\ UNCHANGED unsolved_task_ids
       ELSE /\ unsolved_task_ids' = ret.ids
            /\ d_log' = Append(d_log, Stage("filter", current_traces_dir, NoDir,
                                            <<>>, ret.ids, FALSE, 0))
            /\ d_pc' = IF no_unsolved(ret.ids) THEN "collect" ELSE "replay"
            /\ d_exc' = ""
    /\ UNCHANGED <<args, runs, iteration, all_trace_dirs, current_traces_dir,
                   replay_traces_dir>>
    /\ UNCHANGED <<filterVars, collectVars, reorgVars, replayVars>>

\* run_replay_agent_for_unsolved: it filters the directory again; with nothing
\* unsolved it returns the directory it was given, otherwise it runs the
\* replay agent with TRAJECTORY_FOLDER set to it.  The return code of the
\* run is dropped in both revisions.
RunReplayAgentForUnsolved ==
    /\ d_pc = "replay"
    /\ LET ret == driver_get_unsolved_tasks(args.revision, runs[current_traces_dir]) IN
       IF ret.status # "returned"
       THEN /\ d_pc' = "raised" /\ d_exc' = ret.status
            /\ UNCHANGED <<runs, replay_traces_dir, d_log>>
       ELSE IF no_unsolved(ret.ids)
       THEN /\ replay_traces_dir' = current_traces_dir
            /\ d_pc' = "reorganize" /\ d_exc' = ""
            /\ UNCHANGED <<runs, d_log>>
       ELSE \E tb \in TbRun :
            /\ runs' = [runs EXCEPT ![ReplayDir(iteration)] = tb.dir]
            /\ d_log' = Append(d_log, Stage("replay", ReplayDir(iteration),
                                            current_traces_dir, <<>>, ret.ids, FALSE,
                                            tb.returncode))
            /\ replay_traces_dir' = ReplayDir(iteration)
            /\ d_pc' = "reorganize" /\ d_exc' = ""
    /\ UNCHANGED <<args, iteration, all_trace_dirs, current_traces_dir,
                   unsolved_task_ids>>
    /\ UNCHANGED <<filterVars, collectVars, reorgVars, replayVars>>

\* Step 3, the rest of a round: reorganize the new run, keep it, read it next.
ReorganizeReplay ==
    /\ d_pc = "reorganize"
    /\ runs' = [runs EXCEPT ![replay_traces_dir] = reorganized_run(@)]
    /\ d_log' = Append(d_log, Stage("reorganize", replay_traces_dir, NoDir, <<>>, <<>>,
                               FALSE, 0))
    /\ all_trace_dirs' = retained(all_trace_dirs, replay_traces_dir)
    /\ current_traces_dir' = replay_traces_dir
    /\ iteration' = iteration + 1
    /\ d_pc' = after_round(iteration + 1, args.max_iterations)
    /\ UNCHANGED <<args, d_exc, replay_traces_dir, unsolved_task_ids>>
    /\ UNCHANGED <<filterVars, collectVars, reorgVars, replayVars>>

\* Step 4: collect_all_traces(all_trace_dirs, ...).  find_task_info lists every
\* directory of the list (os.listdir), so a missing one ends the call.
CollectAllTraces ==
    /\ d_pc = "collect"
    /\ LET raises == \E k \in 1 .. Len(all_trace_dirs) : ~runs[all_trace_dirs[k]].exists IN
       /\ d_log' = Append(d_log, Stage("collect", NoDir, NoDir, all_trace_dirs, <<>>,
                                       raises, 0))
       /\ IF raises
          THEN d_pc' = "raised" /\ d_exc' = "FileNotFoundError"
          ELSE d_pc' = "returned" /\ d_exc' = ""
    /\ UNCHANGED <<args, runs, iteration, all_trace_dirs, current_traces_dir,
                   replay_traces_dir, unsolved_task_ids>>
    /\ UNCHANGED <<filterVars, collectVars, reorgVars, replayVars>>

NextPipeline ==
    \/ GenerateInitialTraces
    \/ ReorganizeInitial
    \/ FilterUnsolved
    \/ RunReplayAgentForUnsolved
    \/ ReorganizeReplay
    \/ CollectAllTraces

SpecPipeline == InitPipeline /\ [][NextPipeline]_vars

(***************************************************************************)
(* What the filter is specified to select (spec 4.3), stated on the logs    *)
(* root alone.                                                              *)
(***************************************************************************)
\* The entry holds a readable 1-of-1 trace that the selection rule admits.
MeetsSelectionRule(c, t) ==
    /\ c.kind = "trace"
    /\ c.results = "ok"
    /\ c.is_resolved # "true"           \* is_resolved false, or absent (default false)
    /\ c.has_logs
    /\ (t = None \/ c.entries <= t)

\* The task an entry stands for: results.json's task_id, else the directory name.
TaskOf(c) == IF c.task_id = NoKey THEN c.name ELSE c.task_id

RuleSelection(listing, t) ==
    {TaskOf(listing[i]) : i \in {k \in 1 .. Len(listing) : MeetsSelectionRule(listing[k], t)}}

\* t1 <= t2 on thresholds, an unset threshold being the loosest.
ThresholdLeq(t1, t2) == t2 = None \/ (t1 # None /\ t1 <= t2)

\* C1: for every logs root and every threshold, get_unsolved_tasks returns a
\* task iff its 1-of-1 trace is unresolved, has an agent-logs directory and
\* (the threshold is unset or the number of agent-logs entries is <= it).
C1_ReturnsExactlyTheSelection ==
    f_pc = "utils" => Range(f_ret.ids) = RuleSelection(logs_dir, threshold)

\* The scenario's logs root: task alpha, is_resolved = false, 12 episodes.
AlphaRoot ==
    << Entry("dir1", "trace",
             [tname |-> "1-of-1", results |-> "ok", task_id |-> "alpha",
              is_resolved |-> "false", has_logs |-> TRUE, entries |-> 12]) >>

C3_MonotonicInThreshold ==
    f_pc = "utils" =>
        \A t2 \in Thresholds :
            ThresholdLeq(threshold, t2) =>
                Range(f_ret.ids) \subseteq Range(get_unsolved_tasks(logs_dir, t2).ids)


(***************************************************************************)
(* What the collector is specified to do (spec 4.5), stated on the trace    *)
(* directories the input roots held when the call began.                    *)
(***************************************************************************)
\* The observations of a task id: the readable traces of the input roots that
\* carry it.
Observations(T) ==
    {t \in src : t.root \in InputRoots /\ t.results = "ok"
                 /\ (IF t.task_id = NoKey THEN t.dir ELSE t.task_id) = T}

Unresolved(t) == t.is_resolved # "true"
EpisodeCount(t) == IF t.has_logs THEN t.entries ELSE 0
RootIndex(r) == CHOOSE i \in 1 .. Len(logs_dirs) : logs_dirs[i] = r
Holds(t) == <<t.results, t.task_id, t.is_resolved, t.has_logs, t.entries>>

\* o is the unresolved observation of T with the most episodes, the first in
\* input-root order among those.
IsBestObservation(o, T) ==
    /\ o \in Observations(T)
    /\ Unresolved(o)
    /\ \A p \in Observations(T) :
          Unresolved(p) =>
              \/ EpisodeCount(p) < EpisodeCount(o)
              \/ EpisodeCount(p) = EpisodeCount(o) /\ RootIndex(o.root) <= RootIndex(p.root)

CopiedTasks == {copied[i].task_id : i \in 1 .. Len(copied)}

\* C4: a task whose observations across all input roots are all resolved is
\* never copied: every copy made, and every trace directory the call put under
\* the output root, belongs to a task with an unresolved observation.
C4_NoResolvedOnlyTask ==
    /\ \A T \in CopiedTasks : \E o \in Observations(T) : Unresolved(o)
    /\ \A t \in fs \ src :
          t.root = output_dir /\ (\E o \in Observations(t.dir) : Unresolved(o))

C4_Witness ==
    /\ c_pc = "done"
    /\ copied # <<>>
    /\ \E T \in Tasks : /\ Observations(T) # {}
                        /\ \A o \in Observations(T) : ~Unresolved(o)
                        /\ \E o \in Observations(T) : EpisodeCount(o) >= min_episodes

\* C5: for every task id the collector retains, the version it selects and the
\* trace directory it copies is the unresolved observation with the largest
\* episode count over all input roots, the first in input-root order on a tie,
\* and the copy holds what that observation holds.
C5_CopiesBestUnresolved ==
    /\ \A i \in 1 .. Len(selected_tasks) :
          \E o \in src : /\ PathOf(o) = selected_tasks[i].value.task_dir
                         /\ IsBestObservation(o, selected_tasks[i].key)
    /\ \A i \in 1 .. Len(copied) :
          \E o \in src : /\ PathOf(o) = copied[i].from
                         /\ IsBestObservation(o, copied[i].task_id)
                         /\ \E t \in fs : PathOf(t) = copied[i].to /\ Holds(t) = Holds(o)

\* The claim's example: 5 and 8 unresolved episodes in two roots, minimum 6:
\* only the 8-episode version is copied.
C5_Witness ==
    /\ c_pc = "done"
    /\ min_episodes = 6
    /\ output_dir = OutRoot
    /\ \E a \in src, b \in src :
          /\ PathOf(a) = <<"run1", "alpha", TraceName("alpha", "run1")>>
          /\ PathOf(b) = <<"run2", "alpha", TraceName("alpha", "run2")>>
          /\ Unresolved(a) /\ EpisodeCount(a) = 5
          /\ Unresolved(b) /\ EpisodeCount(b) = 8
          /\ \E i \in 1 .. Len(copied) : copied[i].from = PathOf(b)
          /\ \A i \in 1 .. Len(copied) : copied[i].from # PathOf(a)

\* C6: the collector drops a task iff its best unresolved episode count is below
\* min_episodes: when the call has ended, the tasks copied are exactly the tasks
\* with an unresolved observation of min_episodes episodes or more.
C6_CopiesExactlyTheEligible ==
    c_pc \in {"done", "raised"} =>
        CopiedTasks =
            {T \in Tasks : \E o \in Observations(T) :
                              Unresolved(o) /\ EpisodeCount(o) >= min_episodes}

\* C7: after the call completes, whatever the output root held before, the
\* output directory of each retained task holds exactly one trace directory,
\* the selected best version.
C7_ExactlyOneTracePerTask ==
    c_pc = "done" =>
        \A i \in 1 .. Len(selected_tasks) :
            LET T == selected_tasks[i].key
                held == {t \in fs : t.root = output_dir /\ t.dir = T}
            IN /\ Cardinality(held) = 1
               /\ \A t \in held :
                     \E o \in src : /\ IsBestObservation(o, T)
                                    /\ t.tname = o.tname
                                    /\ Holds(t) = Holds(o)

\* C8: the collector never mutates its sources: every trace directory of every
\* input root is on disk, holding what it held, at every point of the call,
\* also when the output root is an input root.
C8_SourcesUntouched ==
    \A t \in src : t.root \in InputRoots => t \in fs


(***************************************************************************)
(* What the reorganizer is specified to do (spec 4.4 and 7).                *)
(***************************************************************************)
DirNames(b) == {e.name : e \in {x \in b : x.kind = "dir"}}

\* C9: round trip: for a base path none of whose directories is already
\* hash-prefixed, reorganize_directories followed by
\* reverse_reorganize_directories leaves the set of immediate directory names
\* equal to the original set, the directories the forward pass skipped
\* included.
C9_RoundTripRestoresNames ==
    ( /\ r_calls = <<"forward", "reverse">>
      /\ \A e \in r_orig : e.kind = "dir" => ~is_hash_prefixed_directory(e) )
        => DirNames(base) = DirNames(r_orig)

\* C10: scenario: with abcdef12-foo (holding a subdirectory that starts with
\* "foo.") and abcdef12-bar (holding no subdirectory that starts with "bar.")
\* under the base path, reverse_reorganize_directories renames abcdef12-foo to
\* foo and leaves abcdef12-bar unrenamed.
C10_RenamesOnlyTheTruePrefix ==
    ( /\ r_calls = <<"reverse">>
      /\ r_orig = {Dir(abcdef12 \o dash \o foo, {TrialOf(foo)}),
                   Dir(abcdef12 \o dash \o bar, {})} )
        => base = {Dir(foo, {TrialOf(foo)}), Dir(abcdef12 \o dash \o bar, {})}

\* A directory both scans look at whose name has the shape of a hash prefix.
Shaped(b) == {e \in b : IsScannedItem(e) /\ HasHashShape(e.name)}
Stripped(name) == SubSeq(name, 10, Len(name))

\* C11: the reverse transform renames every directory whose name has the shape
\* of a hash prefix to its name without the first 9 characters, also when two
\* or more of them share their first 8 characters.  Stated for base paths
\* where no entry bears a name a rename would produce.
C11_ReverseRenamesEveryShaped ==
    ( /\ r_calls = <<"reverse">>
      /\ \A e \in Shaped(r_orig), x \in r_orig : x.name # Stripped(e.name) ) =>
        \A e \in Shaped(r_orig) :
            /\ e.name \notin DirNames(base)
            /\ Stripped(e.name) \in DirNames(base)

\* C12: the forward transform is idempotent: for any base path and any task
\* folder, a second run of reorganize_directories leaves the directory names
\* the first run left.
C12_ForwardIdempotent ==
    r_calls = <<"forward", "forward">> => DirNames(base) = DirNames(r_prev)

\* The directory holds a trial subdirectory named after its task: after its
\* own name, less the hash prefix when the name has the shape of one.
HoldsOwnTrial(e) ==
    \E subitem \in e.inner :
        startswith(subitem,
                   (IF HasHashShape(e.name) THEN Stripped(e.name) ELSE e.name) \o dot)

\* C12, amended: the forward transform is idempotent on base paths where every
\* task directory holds a trial subdirectory named after its task.
C12_IdempotentWithOwnTrials ==
    ( /\ r_calls = <<"forward", "forward">>
      /\ \A e \in r_orig : IsScannedItem(e) => HoldsOwnTrial(e) )
        => DirNames(base) = DirNames(r_prev)

\* foo was renamed by the first run, the task folder defines a task of the
\* new name, and the second run left the name alone.
C12_Witness ==
    /\ r_calls = <<"forward", "forward">>
    /\ \A e \in r_orig : IsScannedItem(e) => HoldsOwnTrial(e)
    /\ Dir(foo, {TrialOf(foo)}) \in r_orig
    /\ task_folder[foo] = "instruction A"
    /\ task_folder[abcdef12 \o dash \o foo] = "instruction B"
    /\ Dir(abcdef12 \o dash \o foo, {TrialOf(foo)}) \in base
    /\ DirNames(base) = DirNames(r_prev)

\* The directories the last forward run renamed using the instruction looked up.
RenamedFor(instruction) ==
    {r_moves[i].dst : i \in {j \in 1 .. Len(r_moves) :
                                /\ r_moves[j].outcome = "renamed"
                                /\ task_folder[r_moves[j].src] = instruction}}

TrialsOf(b, name) ==
    {<<name, subdir>> : subdir \in
        UNION {{x \in e.inner : contains(x, one_of_one)} : e \in {y \in b : y.name = name}}}

\* C13: the task hash joins reorganization and replay: for every task
\* directory that reorganize_directories renamed using instruction s,
\* _find_trajectory_folder(create_task_hash(s)) over the same root returns that
\* task's 1-of-1 trace directory, never another task's.
C13_HashJoinsToOwnTrace ==
    r_calls = <<"forward", "find">> =>
        \A d \in RenamedFor(r_instruction) :
            TrialsOf(base, d) # {} => r_found \in TrialsOf(base, d)

\* C13, amended: the lookup returns the renamed task's own 1-of-1 trace
\* directory when no other directory under the root starts with the same hash
\* and "-".
C13_JoinsWhenPrefixUnshared ==
    r_calls = <<"forward", "find">> =>
        \A d \in RenamedFor(r_instruction) :
            ( /\ TrialsOf(base, d) # {}
              /\ \A e \in base : (e.kind = "dir" /\ e.name # d)
                                    => ~startswith(e.name, SubSeq(d, 1, 9)) )
                => r_found \in TrialsOf(base, d)

C13_Witness ==
    /\ r_calls = <<"forward", "find">>
    /\ r_instruction = "instruction A"
    /\ RenamedFor(r_instruction) = {abcdef12 \o dash \o foo}
    /\ \E e \in base : e.kind = "dir" /\ startswith(e.name, hash_0a1b2c3d \o dash)
                       /\ e.inner # {}
    /\ r_found = <<abcdef12 \o dash \o foo, TrialOf(foo)>>

(***************************************************************************)
(* What the replay reconstructor is specified to do (spec 4.6 and 7).       *)
(***************************************************************************)
EpisodeNumber(name) == int(split_1(name))[1]

\* The episode-<N> directories of agent-logs.
EpisodeDirs ==
    {item \in p_items : /\ item.kind = "dir"
                        /\ startswith(item.name, episode_)
                        /\ int(split_1(item.name)) # <<>>}

Parses(item) == item.response \in {"incomplete", "complete"}

\* _read_trajectories has returned to perform_task.
HasRead ==
    p_pc \in {"replay", "loop", "returned", "raised"} /\ p_exc \notin {"IndexError", "KeyError"}

\* C14: whatever the listing order of the episode-<N> directories, the command
\* batches _read_trajectories returns are those of the episodes whose response
\* parses, in strictly increasing N.
C14_BatchesInEpisodeOrder ==
    (HasRead /\ p_traj = "logs") =>
        /\ Range(p_read.commands) = {item.name : item \in {x \in EpisodeDirs : Parses(x)}}
        /\ \A i, j \in 1 .. Len(p_read.commands) :
              i < j => EpisodeNumber(p_read.commands[i]) < EpisodeNumber(p_read.commands[j])

\* The claim's example: episode-2, episode-10 and episode-1 give the batches of
\* episode-1, episode-2, episode-10.
C14_Witness ==
    /\ HasRead
    /\ {item.name : item \in p_items} =
           {episode_ \o <<"2">>, episode_ \o <<"1", "0">>, episode_ \o <<"1">>}
    /\ p_read.commands =
           <<episode_ \o <<"1">>, episode_ \o <<"2">>, episode_ \o <<"1", "0">>>>

\* C15: when no episode is discoverable (no trajectory folder, no agent-logs
\* directory, or no episode-<N> directory in it), perform_task ends with an
\* exception raised before anything is sent to the session; the agent loop
\* never starts and no AgentResult is returned.
C15_NoEpisodesIsFailure ==
    (p_pc # "start" /\ (p_traj # "logs" \/ EpisodeDirs = {})) =>
        /\ p_pc = "raised"
        /\ p_exc \in {"No commands found for task", "IndexError"}
        /\ p_sent = <<>>
        /\ p_episodes = <<>>

C15_Witness ==
    /\ p_traj = "logs" /\ p_items # {} /\ EpisodeDirs = {}
    /\ p_pc = "raised" /\ p_exc = "IndexError"

\* C16: when the execution of a replayed batch raises, that batch is the last
\* one sent to the session, perform_task has raised the exception, and the
\* agent loop has run no episode.
C16_ReplayErrorAborts ==
    \A k \in 1 .. Len(p_sent) :
        p_sent[k].raised =>
            /\ k = Len(p_sent)
            /\ p_pc = "raised" /\ p_exc = "ExecuteError"
            /\ p_episodes = <<>>

\* The first of three batches raised: the other two were never sent.
C16_Witness ==
    /\ Len(p_read.commands) = 3
    /\ Len(p_sent) = 1 /\ p_sent[1].raised
    /\ p_pc = "raised"

\* The last episode: the episode directory with the largest number.
LastEpisodes == {item \in EpisodeDirs :
                    \A other \in EpisodeDirs :
                        EpisodeNumber(other.name) <= EpisodeNumber(item.name)}

\* C17: in every history _read_trajectories produces where the last episode's
\* response parses, the final message is an assistant turn carrying that
\* response with is_task_complete false, whatever the recorded value; no
\* message carrying a response has is_task_complete true.
C17_FinalTurnNeverComplete ==
    HasRead =>
        /\ \A item \in LastEpisodes :
              Parses(item) =>
                  /\ p_read.messages # <<>>
                  /\ p_read.messages[Len(p_read.messages)] =
                         ResponseMessage("assistant",
                             [commands |-> item.name, is_task_complete |-> FALSE])
        /\ \A i \in 1 .. Len(p_read.messages) :
              p_read.messages[i].kind = "response" => ~p_read.messages[i].is_task_complete

\* The recorded response said the task was complete.
C17_Witness ==
    /\ HasRead
    /\ \E item \in LastEpisodes : item.response = "complete"
    /\ Len(p_read.messages) = 3
    /\ ~p_read.messages[3].is_task_complete

\* The numbers of the replayed episodes in the order of replay, then those of
\* the episodes the resumed loop ran.
RECURSIVE Ascending(_)
Ascending(S) ==
    IF S = {} THEN <<>>
    ELSE LET least == CHOOSE x \in S : \A y \in S : x <= y
         IN <<least>> \o Ascending(S \ {least})

EpisodeNumbers ==
    Ascending({EpisodeNumber(item.name) : item \in EpisodeDirs}) \o p_episodes

StrictlyIncreasing(seq) == \A i, j \in 1 .. Len(seq) : i < j => seq[i] < seq[j]

\* C18: the first episode number of the resumed agent loop equals the number
\* of replayed episodes, and over the whole task the episode numbers, the
\* replayed ones then the new ones, are strictly increasing.
C18_NumberingContinues ==
    p_episodes # <<>> =>
        /\ p_episodes[1] = Cardinality(EpisodeDirs)
        /\ StrictlyIncreasing(EpisodeNumbers)

\* C18, amended: the same, when the replayed episode directories are numbered
\* 0 .. k-1.
C18_ContinuesFromZeroBased ==
    ( /\ p_episodes # <<>>
      /\ {EpisodeNumber(item.name) : item \in EpisodeDirs}
             = 0 .. (Cardinality(EpisodeDirs) - 1) ) =>
        /\ p_episodes[1] = Cardinality(EpisodeDirs)
        /\ StrictlyIncreasing(EpisodeNumbers)

C18_Witness ==
    /\ {item.name : item \in EpisodeDirs} = {episode_ \o <<"0">>, episode_ \o <<"1">>}
    /\ p_episodes = <<2, 3>>

(***************************************************************************)
(* The pipeline driver's stage order (spec 4.7), stated on the stage log.   *)
(***************************************************************************)
StagesAt(stage) == {k \in 1 .. Len(d_log) : d_log[k].stage = stage}

\* The log is a prefix of generate, reorganize, (filter, replay, reorganize)*,
\* collect.
FollowsStageOrder ==
    \A k \in 1 .. Len(d_log) :
        LET s == d_log[k].stage
            before == IF k = 1 THEN "" ELSE d_log[k - 1].stage
        IN /\ (k = 1) = (s = "generate")
           /\ k = 2 => s = "reorganize"
           /\ s = "reorganize" /\ k > 2 => before = "replay"
           /\ s = "filter" => before = "reorganize"
           /\ s = "replay" => before = "filter"
           /\ s = "collect" => before \in {"reorganize", "filter"} /\ k = Len(d_log)

AtMostMaxIterationsRounds == Cardinality(StagesAt("replay")) <= args.max_iterations

\* No stage of a round after a filter that returned no unsolved task.
StopsAtFirstEmptyFilter ==
    \A k \in StagesAt("filter") :
        ~d_log[k].raised /\ d_log[k].ids = <<>> =>
            \A j \in (k + 1) .. Len(d_log) : d_log[j].stage = "collect"

ReplaysAgainstReorganized ==
    \A k \in StagesAt("replay") :
        /\ \E j \in 1 .. (k - 1) :
              d_log[j].stage = "reorganize" /\ d_log[j].dir = d_log[k].against
        /\ runs[d_log[k].against].reorganized

CollectedOnceLast ==
    /\ Cardinality(StagesAt("collect")) = 1
    /\ d_log[Len(d_log)].stage = "collect"

\* C19: the driver runs its stages only in the order generate, reorganize,
\* (filter, replay, reorganize)*, collect; it runs at most max_iterations
\* replay rounds, stops at the first round whose filter returns no unsolved
\* task, runs every replay against a directory reorganized earlier, and a
\* run that returns has run collect exactly once, last.
C19_StagesInOrder ==
    /\ FollowsStageOrder
    /\ AtMostMaxIterationsRounds
    /\ StopsAtFirstEmptyFilter
    /\ ReplaysAgainstReorganized
    /\ d_pc = "returned" => CollectedOnceLast

\* C19, amended: the same, except that with --run-initial the driver returns
\* right after generate and runs neither reorganize nor collect.
C19_StagesInOrderUnlessInitialOnly ==
    /\ FollowsStageOrder
    /\ AtMostMaxIterationsRounds
    /\ StopsAtFirstEmptyFilter
    /\ ReplaysAgainstReorganized
    /\ d_pc = "returned" =>
          IF args.run_initial
          THEN Len(d_log) = 1 /\ d_log[1].stage = "generate"
          ELSE CollectedOnceLast

\* A run of one replay round that the second round's filter ended.
C19_Witness ==
    /\ d_pc = "returned"
    /\ [k \in 1 .. Len(d_log) |-> d_log[k].stage] =
           <<"generate", "reorganize", "filter", "replay", "reorganize",
             "filter", "collect">>
    /\ d_log[6].ids = <<>>

\* The output directories of the replay rounds that ran, in order.
RECURSIVE ReplayOutputs(_)
ReplayOutputs(k) ==
    IF k = 0 THEN <<>>
    ELSE IF d_log[k].stage = "replay"
    THEN Append(ReplayOutputs(k - 1), d_log[k].dir)
    ELSE ReplayOutputs(k - 1)

\* C20: the list handed to the collector holds the initial run directory and
\* the output directory of every replay round that ran: one entry more than
\* the rounds, never the last directory alone.
C20_EveryRunDirectoryCollected ==
    \A k \in StagesAt("collect") :
        /\ d_log[k].dirs = <<InitialDir>> \o ReplayOutputs(k)
        /\ Len(d_log[k].dirs) = 1 + Cardinality(StagesAt("replay"))

\* Two replay rounds ran before the collection.
C20_Witness ==
    /\ d_pc = "returned"
    /\ Cardinality(StagesAt("replay")) = 2
    /\ d_log[Len(d_log)].dirs = <<InitialDir, ReplayDir(1), ReplayDir(2)>>

\* C21: when a `tb run` (the initial one or a replay's) ends with a non-zero
\* return code the driver halts: the failed command's stage is the last stage
\* it runs.
C21_HaltsOnFailedCommand ==
    \A k \in StagesAt("generate") \cup StagesAt("replay") :
        d_log[k].returncode # 0 => k = Len(d_log)

(***************************************************************************)
(* What the indexer is specified to do (spec 4.2), stated on the logs root. *)
(***************************************************************************)
HasIndexed == f_pc \in {"utils.find_task_info", "collect_traces.find_task_info"}

\* The candidates the indexer is to skip, and the task id of one it is to index.
Unindexable(c) == c.kind # "trace" \/ c.results # "ok"
IndexKey(c) == IF c.task_id = NoKey THEN c.name ELSE c.task_id

\* C22: find_task_info raises for no logs root; a candidate with no "1-of-1"
\* child, with no results.json or with a results.json that is not JSON is
\* skipped, and every other candidate of the root is indexed.
C22_IndexerSkipsUnreadable ==
    HasIndexed =>
        /\ f_ret.status = "returned"
        /\ DictKeys(f_ret.ids) =
               {IndexKey(logs_dir[i]) :
                    i \in {j \in 1 .. Len(logs_dir) : ~Unindexable(logs_dir[j])}}

\* The same of the recovery-bench revision alone.
UtilsIndexerSkipsUnreadable ==
    f_pc = "utils.find_task_info" => C22_IndexerSkipsUnreadable

\* The last transform that ran, the directories it tried to move, and the
\* directories each transform is specified to rename.
LastTransform == r_calls[Len(r_calls)]
Attempted == {r_moves[i].src : i \in 1 .. Len(r_moves)}
HasDefinition(name) == name \in DOMAIN task_folder /\ task_folder[name] # NoDescription
Unprefixed(b) == {e \in b : IsScannedItem(e) /\ ~is_hash_prefixed_directory(e)}
Eligible(transform, b) ==
    IF transform = "forward" THEN {e \in Unprefixed(b) : HasDefinition(e.name)}
    ELSE Shaped(b)

\* The directories the last transform failed on: those with no task
\* definition (forward) and those whose move raised.
FailedOn ==
    {e \in r_prev : \E i \in 1 .. Len(r_moves) :
                        r_moves[i].outcome = "raised" /\ r_moves[i].src = e.name}
    \cup (IF LastTransform = "forward"
          THEN {e \in Unprefixed(r_prev) : ~HasDefinition(e.name)} ELSE {})

\* C23: in either transform a failure on one directory does not stop the run:
\* a directory with no task definition keeps its name and is not moved, a
\* directory whose move raised is still there as it was, and every other
\* eligible directory has been processed.
C23_FailuresAreIsolated ==
    (r_calls # <<>> /\ LastTransform \in {"forward", "reverse"}) =>
        /\ LastTransform = "forward" =>
              \A e \in Unprefixed(r_prev) :
                  ~HasDefinition(e.name) =>
                      e.name \in DirNames(base) /\ e.name \notin Attempted
        /\ \A i \in 1 .. Len(r_moves) :
              r_moves[i].outcome = "raised" =>
                  \E e \in base \cap r_prev : e.name = r_moves[i].src
        /\ FailedOn # {} =>
              \A e \in Eligible(LastTransform, r_prev) \ FailedOn : e.name \in Attempted

\* The same of the forward transform alone.
ForwardFailuresAreIsolated ==
    (r_calls # <<>> /\ LastTransform = "forward") => C23_FailuresAreIsolated

\* The batches of the episodes that parse, in episode order.
RECURSIVE BatchesOf(_)
BatchesOf(numbers) ==
    IF numbers = <<>> THEN <<>>
    ELSE LET here == {item \in EpisodeDirs :
                         EpisodeNumber(item.name) = numbers[1] /\ Parses(item)}
         IN (IF here = {} THEN <<>> ELSE <<(CHOOSE item \in here : TRUE).name>>)
            \o BatchesOf(Tail(numbers))

ParsedBatches == BatchesOf(Ascending({EpisodeNumber(item.name) : item \in EpisodeDirs}))

SentBatches == [k \in 1 .. Len(p_sent) |-> p_sent[k].commands]

\* No failure of perform_task that comes from the response files.
NoFailureFromResponses ==
    p_exc \notin {"No commands found for task", "IndexError", "UnboundLocalError"}

\* The parsing episodes' batches are what is replayed, in order, and the agent
\* loop starts after the last of them.
ReplaysParsedBatches ==
    /\ HasRead => p_read.commands = ParsedBatches
    /\ SentBatches = SubSeq(ParsedBatches, 1, Len(p_sent))
    /\ p_pc \in {"loop", "returned"} \/ p_episodes # <<>> => SentBatches = ParsedBatches

\* C24: for a trace with at least one episode directory, an episode whose
\* response.json is missing or malformed contributes no batch and does not
\* abort: perform_task replays the batches of the episodes that parse and
\* starts the agent loop, also when none of the episodes parses.
C24_UnparsedEpisodesDoNotAbort ==
    (p_pc # "start" /\ p_traj = "logs" /\ EpisodeDirs # {}) =>
        /\ NoFailureFromResponses
        /\ ReplaysParsedBatches

\* C24, amended: the same when at least one episode parses; when none parses,
\* perform_task raises, replays nothing and never starts the agent loop.
C24_UnparsedDoNotAbortWhenSomeParse ==
    (p_pc # "start" /\ p_traj = "logs" /\ EpisodeDirs # {}) =>
        IF \E item \in EpisodeDirs : Parses(item)
        THEN NoFailureFromResponses /\ ReplaysParsedBatches
        ELSE /\ p_pc = "raised"
             /\ p_exc \in {"No commands found for task", "KeyError"}
             /\ p_sent = <<>> /\ p_episodes = <<>>

\* Three episodes of which the middle one does not parse; both batches were
\* replayed and the agent loop ran.
C24_Witness ==
    /\ {item.name : item \in EpisodeDirs} =
           {episode_ \o <<"0">>, episode_ \o <<"1">>, episode_ \o <<"2">>}
    /\ \E item \in EpisodeDirs : item.name = episode_ \o <<"1">> /\ ~Parses(item)
    /\ SentBatches = <<episode_ \o <<"0">>, episode_ \o <<"2">>>>
    /\ p_episodes # <<>>

\* C25: the session gets one execution call per episode whose response
\* parses, in ascending episode order, each with that episode's whole batch;
\* every replay call is made before the resumed loop's first episode, and the
\* terminal output in the resume prompt is that of the last replayed batch.
C25_ReplayCallsThenPrompt ==
    /\ SentBatches = SubSeq(ParsedBatches, 1, Len(p_sent))
    /\ p_pc \in {"loop", "returned"} \/ p_episodes # <<>> =>
          /\ SentBatches = ParsedBatches
          /\ \A k \in 1 .. Len(p_sent) : ~p_sent[k].raised
          /\ p_prompt = pane_output(ParsedBatches[Len(ParsedBatches)])

\* Two batches were replayed, listed in the other order, before the loop ran.
C25_Witness ==
    /\ SentBatches = <<episode_ \o <<"2">>, episode_ \o <<"1", "0">>>>
    /\ p_prompt = pane_output(episode_ \o <<"1", "0">>)
    /\ p_episodes # <<>>

\* What normalization is specified to give (spec 4.6): the text of the first
\* part that is a text part.
FirstTextOf(parts) ==
    LET texts == {k \in 1 .. Len(parts) : parts[k].type = "text"}
    IN parts[CHOOSE k \in texts : \A j \in texts : k <= j].text

Normalized(message) ==
    IF message.kind = "parts" THEN TextMessage(message.role, FirstTextOf(message.parts))
    ELSE message

\* The messages recorded in debug.json of the last episode.
Recorded == debug_input(p_debug)

\* C26: normalization raises for no recorded message list, keeps the number
\* and the order of the messages, leaves a message with scalar content as it
\* is and gives a message with list content the same role and the text of its
\* first text part, also when its first part is no text part.
C26_NormalizesEveryRecordedList ==
    (p_pc # "start" /\ p_traj = "logs" /\ EpisodeDirs # {}) =>
        /\ p_exc # "KeyError"
        /\ HasRead =>
              /\ Len(p_read.messages) >= Len(Recorded)
              /\ \A i \in 1 .. Len(Recorded) : p_read.messages[i] = Normalized(Recorded[i])

\* The same of the lists whose multi-part messages begin with a text part.
NormalizesTextFirstLists ==
    (\A i \in 1 .. Len(Recorded) :
         Recorded[i].kind = "parts" => Recorded[i].parts[1].type = "text")
        => C26_NormalizesEveryRecordedList

\* The indexer's mapping for the filter's logs root, and the candidate
\* directory an observation of it was read from.
IndexerMapping == find_task_info(IndexedRoot, logs_dir)
CandidateOf(task_dir) ==
    logs_dir[CHOOSE i \in 1 .. Len(logs_dir) : logs_dir[i].name = task_dir[2]]

\* The task ids of the mapping that are unresolved and qualify: the trace has
\* an agent-logs directory and its episode count is within the threshold.
QualifyingOfMapping ==
    {IndexerMapping[k].key :
        k \in {j \in 1 .. Len(IndexerMapping) :
                 /\ ~IndexerMapping[j].value.is_resolved
                 /\ CandidateOf(IndexerMapping[j].value.task_dir).has_logs
                 /\ (threshold = None \/ IndexerMapping[j].value.episode_count <= threshold)}}

NoDuplicates(seq) == \A i, j \in 1 .. Len(seq) : seq[i] = seq[j] => i = j

\* C27: for every logs root the list the filter returns holds no task id
\* twice, and its members are the unresolved qualifying task ids of the
\* indexer's mapping for the root.
C27_FilterReturnsMappingKeysOnce ==
    f_pc = "utils" =>
        /\ f_ret.status = "returned"
        /\ NoDuplicates(f_ret.ids)
        /\ Range(f_ret.ids) = QualifyingOfMapping

\* The filter's list holds no task id twice.
FilterReturnsNoDuplicates == f_pc = "utils" => NoDuplicates(f_ret.ids)

\* The names in logging_dir that are episode-<N> directories.
IsEpisodeName(name) == startswith(name, episode_) /\ int(split_1(name)) # <<>>
LoggedEpisodes == {name \in p_logged : IsEpisodeName(name)}

\* C28: the episode count the indexer and the filter compute for a trace is
\* the number of episode-<N> directories of its agent-logs, also for a trace
\* the replay agent wrote (into logging_dir).
C28_CountIsNumberOfEpisodes ==
    (p_logging /\ p_pc # "start") => iterdir_count(p_logged) = Cardinality(LoggedEpisodes)

\* The replayed episode numbers present in the logging directory: those of the
\* episode-<N> directories copied from the prior trace.
ReplayedNumbers == {EpisodeNumber(item.name) : item \in EpisodeDirs}

\* C29: whatever the replayed episode numbers are, every episode number the
\* resumed agent loop uses is greater than every replayed episode number in
\* the logging directory.
C29_LoopNeverReusesReplayedNumber ==
    p_logging => \A n \in Range(p_episodes), m \in ReplayedNumbers : n > m

\* C29, amended: the same, when the replayed episode directories are numbered
\* 0 .. k-1.
C29_LoopNeverReusesZeroBasedNumber ==
    ( /\ p_logging
      /\ ReplayedNumbers = 0 .. (Cardinality(EpisodeDirs) - 1) ) =>
        \A n \in Range(p_episodes), m \in ReplayedNumbers : n > m

C29_Witness ==
    /\ p_logging
    /\ ReplayedNumbers = {0, 1}
    /\ p_episodes = <<2, 3>>
    /\ {episode_ \o str(n) : n \in 0 .. 3} \subseteq p_logged

(***************************************************************************)
(* The reorganizer keeps the task directories of the base path.            *)
(***************************************************************************)
Directories(b) == {e \in b : e.kind = "dir"}

\* d is the directory e under its old name or under the name a transform gives
\* it: its content is e's, and its name is e's, e's behind a hash prefix, or
\* e's without its first 9 characters.
SameDirectory(e, d) ==
    /\ d.kind = "dir"
    /\ d.inner = e.inner
    /\ \/ d.name = e.name
       \/ HasHashShape(d.name) /\ Stripped(d.name) = e.name
       \/ HasHashShape(e.name) /\ d.name = Stripped(e.name)

KeepsDirectories ==
    /\ Cardinality(Directories(base)) = Cardinality(Directories(r_prev))
    /\ \A e \in Directories(r_prev) : \E d \in base : SameDirectory(e, d)

\* C30: the forward and the reverse transform never merge, nest or lose task
\* directories: after either, the base path holds as many immediate
\* directories as before and each of them is still an immediate child, under
\* its old or its new name, also when the target name of a rename exists.
C30_TransformsKeepDirectories ==
    (r_calls # <<>> /\ LastTransform \in {"forward", "reverse"}) => KeepsDirectories

\* The same for the runs in which no move found a directory at its target.
KeepsDirectoriesUnlessNested ==
    ( /\ r_calls # <<>>
      /\ LastTransform \in {"forward", "reverse"}
      /\ \A i \in 1 .. Len(r_moves) : r_moves[i].outcome # "nested" ) => KeepsDirectories

=============================================================================
